---- MODULE Spec2Model ----
(***************************************************************************)
(* A model of the redis-rs server: the command parser (cmd.rs), the        *)
(* connection state machine with its MULTI/EXEC/DISCARD transaction queue  *)
(* (server.rs), the storage actor and its mailbox (storage.rs) and the     *)
(* string and list stores (data_structures/strings.rs, list.rs).           *)
(*                                                                         *)
(* Texts (Rust Strings) are sequences of chunks.  Bytes that come from a   *)
(* client are one-character chunks, so that to_uppercase and the integer   *)
(* parsers work on them character by character; the string literals of    *)
(* the source are kept as one chunk each.                                  *)
(* Option<T> is a sequence: <<>> is None and <<x>> is Some(x).             *)
(***************************************************************************)
EXTENDS Integers, Sequences, FiniteSets, TLC

\* ------------------------------------------------------------------ bounds
\* frames the client of the single-client specification sends
MaxFrames == 3
\* frames the client of the transaction specification sends
MaxFramesTx == 6
\* frames each client of the two-client specification sends
MaxFramesTwo == 3
\* ticks of the monotonic clock (one tick is one millisecond)
MaxTime == 2
\* frames the two clients of the pair specification send: the one that can
\* run a transaction, and its peer
MaxFramesPair == 4
MaxFramesPeer == 1
\* frames the client of the wide-number specification sends
MaxFramesWide == 3
\* frames the client of the codec specification writes, and the longest
\* first segment of a frame that is cut in two
MaxSent == 1
MaxCut == 22
\* frames the decoder is let to return
MaxYielded == 2
\* frames the client of the list specification sends, and the largest count
\* of its LPOPs
MaxFramesList == 4
MaxCount == 3
\* frames the client of the range specification sends, and the largest
\* index of its LRANGEs, to either side of zero
MaxFramesRange == 4
MaxIndex == 4
\* frames the client of a replica sends
MaxFramesReplica == 2
\* frames the client of the diagnostics specification sends
MaxFramesDiagnostic == 3
\* frames of the client that queues commands of every kind
MaxFramesQueue == 4
\* frames of the connection that writes and of the connection that reads
MaxFramesWriter == 5
MaxFramesReader == 2

\* the client connections of the model
Conns == {1, 2}

\* ------------------------------------------------------------------- texts
LowerCase == <<"a","b","c","d","e","f","g","h","i","j","k","l","m",
               "n","o","p","q","r","s","t","u","v","w","x","y","z">>
UpperCase == <<"A","B","C","D","E","F","G","H","I","J","K","L","M",
               "N","O","P","Q","R","S","T","U","V","W","X","Y","Z">>
Digits == <<"0","1","2","3","4","5","6","7","8","9">>

UpperChar(c) ==
    IF \E i \in 1..26 : LowerCase[i] = c
    THEN UpperCase[CHOOSE i \in 1..26 : LowerCase[i] = c]
    ELSE c

\* str::to_uppercase
ToUppercase(s) == [i \in 1..Len(s) |-> UpperChar(s[i])]

IsDigit(c) == \E i \in 1..10 : Digits[i] = c
DigitVal(c) == (CHOOSE i \in 1..10 : Digits[i] = c) - 1

RECURSIVE DecimalValue(_)
DecimalValue(ds) ==
    IF ds = <<>> THEN 0
    ELSE 10 * DecimalValue(SubSeq(ds, 1, Len(ds) - 1)) + DigitVal(ds[Len(ds)])

AllDigits(ds) == ds # <<>> /\ \A i \in 1..Len(ds) : IsDigit(ds[i])

\* An i64 of at most nine decimal digits is an integer of the model.  The
\* model checker's integers are 32 bits wide, so an i64 of ten digits or more
\* is kept as a WideInt: its sign and the digits of its magnitude.
WideInt(neg, mag) == [neg |-> neg, mag |-> mag]

\* the digits of i64::MAX and of the magnitude of i64::MIN
I64_MAX == <<"9","2","2","3","3","7","2","0","3","6","8","5","4","7","7","5","8","0","7">>
I64_MIN == <<"9","2","2","3","3","7","2","0","3","6","8","5","4","7","7","5","8","0","8">>

RECURSIVE StripZeros(_)
StripZeros(ds) ==
    IF Len(ds) > 1 /\ ds[1] = "0" THEN StripZeros(Tail(ds)) ELSE ds

\* ds <= es, for two numerals of the same length
RECURSIVE DigitsLeq(_, _)
DigitsLeq(ds, es) ==
    IF ds = <<>> THEN TRUE
    ELSE IF DigitVal(ds[1]) # DigitVal(es[1]) THEN DigitVal(ds[1]) < DigitVal(es[1])
    ELSE DigitsLeq(Tail(ds), Tail(es))

\* ds <= es, for two numerals without leading zeros
MagLeq(ds, es) == Len(ds) < Len(es) \/ (Len(ds) = Len(es) /\ DigitsLeq(ds, es))

\* the numeral of ds + 1
RECURSIVE DigitsSucc(_)
DigitsSucc(ds) ==
    IF ds = <<>> THEN <<"1">>
    ELSE LET front == SubSeq(ds, 1, Len(ds) - 1)
             last == DigitVal(ds[Len(ds)])
         IN  IF last < 9 THEN front \o << Digits[last + 2] >>
             ELSE DigitsSucc(front) \o <<"0">>

\* the numeral of ds - 1, for ds > 0
RECURSIVE DigitsPredRaw(_)
DigitsPredRaw(ds) ==
    LET front == SubSeq(ds, 1, Len(ds) - 1)
        last == DigitVal(ds[Len(ds)])
    IN  IF last > 0 THEN front \o << Digits[last] >>
        ELSE DigitsPredRaw(front) \o <<"9">>
DigitsPred(ds) == StripZeros(DigitsPredRaw(ds))

\* the numeral s, an optional sign and digits, has ten significant digits or more
IsWide(s) ==
    LET ds == IF s # <<>> /\ s[1] \in {"+", "-"} THEN Tail(s) ELSE s
    IN  AllDigits(ds) /\ Len(StripZeros(ds)) > 9

\* str::parse::<i64>: an optional sign, then one or more decimal digits of a
\* value from i64::MIN to i64::MAX
ParseI64(s) ==
    LET signed == s # <<>> /\ s[1] \in {"+", "-"}
        ds == IF signed THEN Tail(s) ELSE s
        neg == signed /\ s[1] = "-"
    IN  IF ~AllDigits(ds) THEN <<>>
        ELSE LET mag == StripZeros(ds) IN
             IF Len(mag) <= 9
             THEN << IF neg THEN 0 - DecimalValue(mag) ELSE DecimalValue(mag) >>
             ELSE IF MagLeq(mag, IF neg THEN I64_MIN ELSE I64_MAX)
             THEN << WideInt(neg, mag) >>
             ELSE <<>>

\* str::parse::<u64>: an optional plus sign, then one or more decimal digits.
ParseU64(s) ==
    LET ds == IF s # <<>> /\ s[1] = "+" THEN Tail(s) ELSE s
    IN  IF ~AllDigits(ds) THEN <<>> ELSE << DecimalValue(ds) >>

RECURSIVE NatText(_)
NatText(n) ==
    IF n < 10 THEN << Digits[n + 1] >>
    ELSE NatText(n \div 10) \o << Digits[(n % 10) + 1] >>

\* i64::to_string
I64ToString(n) == IF n < 0 THEN <<"-">> \o NatText(0 - n) ELSE NatText(n)

\* i64::to_string of a WideInt
WideToString(w) == IF w.neg THEN <<"-">> \o w.mag ELSE w.mag

\* current_value + 1 of Strings::increment: the sum, how it prints, and
\* whether the addition overflows the i64.  The sum given for an overflow is
\* the wrapped one, i64::MIN, of a build without overflow checks.
AddOne(data) ==
    LET current_value == ParseI64(data)[1] IN
    IF ~IsWide(data)
    THEN LET new_value == current_value + 1 IN
         IF new_value < 1000000000
         THEN [value |-> new_value, text |-> I64ToString(new_value), overflow |-> FALSE]
         ELSE [value |-> WideInt(FALSE, NatText(new_value)),
               text |-> NatText(new_value), overflow |-> FALSE]
    ELSE IF ~current_value.neg
    THEN IF current_value.mag = I64_MAX
         THEN [value |-> WideInt(TRUE, I64_MIN),
               text |-> WideToString(WideInt(TRUE, I64_MIN)), overflow |-> TRUE]
         ELSE LET new_value == WideInt(FALSE, DigitsSucc(current_value.mag))
              IN  [value |-> new_value, text |-> WideToString(new_value),
                   overflow |-> FALSE]
    ELSE LET mag == DigitsPred(current_value.mag) IN
         IF Len(mag) <= 9
         THEN [value |-> 0 - DecimalValue(mag),
               text |-> I64ToString(0 - DecimalValue(mag)), overflow |-> FALSE]
         ELSE [value |-> WideInt(TRUE, mag),
               text |-> WideToString(WideInt(TRUE, mag)), overflow |-> FALSE]

\* ------------------------------------------------------------------ frames
BulkString(s) == [t |-> "BulkString", s |-> s]
SimpleString(s) == [t |-> "SimpleString", s |-> s]
SimpleError(s) == [t |-> "SimpleError", s |-> s]
Integer(n) == [t |-> "Integer", n |-> n]
NullBulkString == [t |-> "NullBulkString"]
Array(a) == [t |-> "Array", a |-> a]

IsBulk(f) == f.t = "BulkString"

\* char::escape_debug of the characters a text of the model can hold
EscapeDebugChar(c) ==
    CASE c = "\r" -> <<"\\", "r">>
      [] c = "\n" -> <<"\\", "n">>
      [] c = "\"" -> <<"\\", "\"">>
      [] c = "\\" -> <<"\\", "\\">>
      [] OTHER -> << c >>

RECURSIVE EscapeDebug(_)
EscapeDebug(s) ==
    IF s = <<>> THEN <<>> ELSE EscapeDebugChar(Head(s)) \o EscapeDebug(Tail(s))

RECURSIVE Indent(_)
Indent(n) == IF n = 0 THEN <<>> ELSE <<"    ">> \o Indent(n - 1)

\* {:#?} of a RespDataType (the derived Debug, pretty-printed), at nesting
\* depth ind
RECURSIVE DebugPretty(_, _)
RECURSIVE DebugPrettyElems(_, _)
DebugPrettyElems(a, ind) ==
    IF a = <<>> THEN <<>>
    ELSE Indent(ind) \o DebugPretty(Head(a), ind) \o <<",", "\n">>
         \o DebugPrettyElems(Tail(a), ind)
DebugPretty(f, ind) ==
    CASE f.t \in {"BulkString", "SimpleString", "SimpleError"} ->
            << f.t, "(", "\n" >> \o Indent(ind + 1) \o <<"\"">> \o EscapeDebug(f.s)
            \o <<"\"", ",", "\n">> \o Indent(ind) \o <<")">>
      [] f.t = "Integer" ->
            << f.t, "(", "\n" >> \o Indent(ind + 1) \o I64ToString(f.n)
            \o <<",", "\n">> \o Indent(ind) \o <<")">>
      [] f.t = "NullBulkString" -> << f.t >>
      [] f.t = "Array" ->
            << f.t, "(", "\n" >> \o Indent(ind + 1)
            \o (IF f.a = <<>> THEN <<"[]">>
                ELSE <<"[", "\n">> \o DebugPrettyElems(f.a, ind + 2)
                     \o Indent(ind + 1) \o <<"]">>)
            \o <<",", "\n">> \o Indent(ind) \o <<")">>

\* ------------------------------------------------------------------- codec
\* The bytes of a buffer are one-character chunks.  What a parser returns:
\* Ok(Some(item)), Ok(None), Err(..) or a panic, each with the buffer as the
\* call leaves it.
Decoded(item, src) == [r |-> "Some", item |-> item, src |-> src]
NeedMore(src) == [r |-> "None", src |-> src]
DecodeError(msg, src) == [r |-> "Err", msg |-> msg, src |-> src]
DecodePanic(src) == [r |-> "Panic", src |-> src]

CRLF == <<"\r", "\n">>

\* find_crlf: the 0-based position of the first CRLF of the buffer
find_crlf(src) ==
    LET at == {i \in 1..(Len(src) - 1) : src[i] = "\r" /\ src[i + 1] = "\n"}
    IN  IF at = {} THEN <<>>
        ELSE << (CHOOSE i \in at : \A j \in at : i <= j) - 1 >>

\* BytesMut::advance(n)
advance(src, n) == SubSeq(src, n + 1, Len(src))

\* &src[1..crlf_pos]
HeaderText(src, crlf_pos) == SubSeq(src, 2, crlf_pos)

parse_integer(src) ==
    LET crlf == find_crlf(src) IN
    IF crlf = <<>> THEN NeedMore(src)
    ELSE LET crlf_pos == crlf[1]
             integer == ParseI64(HeaderText(src, crlf_pos))
         IN  IF crlf_pos = 1 THEN DecodeError("Empty integer", src)
             ELSE IF integer = <<>> THEN DecodeError("Invalid integer format", src)
             ELSE Decoded(Integer(integer[1]), advance(src, crlf_pos + 2))

parse_simple_string(src) ==
    LET crlf == find_crlf(src) IN
    IF crlf = <<>> THEN NeedMore(src)
    ELSE LET crlf_pos == crlf[1] IN
         IF crlf_pos = 1 THEN DecodeError("Empty simple string", src)
         ELSE Decoded(SimpleString(HeaderText(src, crlf_pos)),
                      advance(src, crlf_pos + 2))

\* parse_bulk_string.  `length as usize` of a negative length other than -1
\* is 2^64 + length: the sum of the length check then overflows (a panic with
\* overflow checks; without them the check passes and the slice
\* &src[0..data_len] panics) unless the length is so negative that the sum
\* stays below 2^64, and then the buffer is never long enough.
parse_bulk_string(src) ==
    LET crlf == find_crlf(src) IN
    IF crlf = <<>> THEN NeedMore(src)
    ELSE LET crlf_pos == crlf[1]
             length_str == HeaderText(src, crlf_pos)
             length == ParseI64(length_str)
         IN  IF crlf_pos = 1 THEN DecodeError("Empty simple string", src)
             ELSE IF length = <<>>
             THEN DecodeError("Invalid bulk string length format", src)
             ELSE IF IsWide(length_str) THEN NeedMore(src)
             ELSE IF length[1] = 0 - 1 THEN Decoded(NullBulkString, src)
             ELSE IF length[1] < 0
             THEN IF crlf_pos + 4 + length[1] >= 0 THEN DecodePanic(src)
                  ELSE NeedMore(src)
             ELSE LET data_len == length[1] IN
                  IF Len(src) < (crlf_pos + 2) + data_len + 2 THEN NeedMore(src)
                  ELSE LET body == advance(src, crlf_pos + 2)
                       IN  Decoded(BulkString(SubSeq(body, 1, data_len)),
                                   advance(body, data_len + 2))

\* parse_array: the header is taken off the buffer before the elements are
\* looked at, and each element parsed takes its bytes off in turn.  A count
\* of -1 is todo!(); any other negative count is a Vec::with_capacity beyond
\* isize::MAX bytes, a panic too.  (A count of ten digits or more, which no
\* input of the model has, is put with them.)
RECURSIVE parse_array(_)
RECURSIVE ParseElements(_, _, _)
ParseElements(n, src, array) ==
    IF n = 0 THEN Decoded(Array(array), src)
    ELSE IF src = <<>> THEN NeedMore(src)
    ELSE LET first_byte == src[1]
             elem == CASE first_byte = "+" -> parse_simple_string(src)
                       [] first_byte = "*" -> parse_array(src)
                       [] first_byte = "$" -> parse_bulk_string(src)
                       [] OTHER -> DecodeError("Invalid RESP data type", src)
         IN  IF elem.r = "Some"
             THEN ParseElements(n - 1, elem.src, Append(array, elem.item))
             ELSE elem
parse_array(src) ==
    LET crlf == find_crlf(src) IN
    IF crlf = <<>> THEN NeedMore(src)
    ELSE LET crlf_pos == crlf[1]
             num_elements_str == HeaderText(src, crlf_pos)
             num_elements == ParseI64(num_elements_str)
         IN  IF crlf_pos = 1 THEN DecodeError("Empty simple string", src)
             ELSE IF num_elements = <<>>
             THEN DecodeError("Invalid bulk string length format", src)
             ELSE IF IsWide(num_elements_str) \/ num_elements[1] < 0
             THEN DecodePanic(src)
             ELSE ParseElements(num_elements[1], advance(src, crlf_pos + 2), <<>>)

\* RespCodec::decode
decode(src) ==
    IF src = <<>> THEN NeedMore(src)
    ELSE CASE src[1] = "+" -> parse_simple_string(src)
           [] src[1] = "*" -> parse_array(src)
           [] src[1] = "$" -> parse_bulk_string(src)
           [] src[1] = ":" -> parse_integer(src)
           [] OTHER -> DecodeError("Unknown RESP type byte", src)

\* RespDataType::as_bytes
RECURSIVE as_bytes(_)
RECURSIVE ElemsBytes(_)
ElemsBytes(arr) ==
    IF arr = <<>> THEN <<>> ELSE as_bytes(Head(arr)) \o ElemsBytes(Tail(arr))
as_bytes(f) ==
    CASE f.t = "SimpleString" -> <<"+">> \o f.s \o CRLF
      [] f.t = "SimpleError" -> <<"-">> \o f.s \o CRLF
      [] f.t = "BulkString" -> <<"$">> \o NatText(Len(f.s)) \o CRLF \o f.s \o CRLF
      [] f.t = "Array" -> <<"*">> \o NatText(Len(f.a)) \o CRLF \o ElemsBytes(f.a)
      [] f.t = "NullBulkString" -> <<"$", "-", "1">> \o CRLF
      [] f.t = "Integer" -> <<":">> \o I64ToString(f.n) \o CRLF

\* ---------------------------------------------------------------- commands
PING == [name |-> "PING"]
ECHO(msg) == [name |-> "ECHO", msg |-> msg]
SET(key, val, px) == [name |-> "SET", key |-> key, val |-> val, px |-> px]
GET(key) == [name |-> "GET", key |-> key]
RPUSH(key, elements) == [name |-> "RPUSH", key |-> key, elements |-> elements]
LRANGE(key, start, stop) ==
    [name |-> "LRANGE", key |-> key, start |-> start, stop |-> stop]
LPUSH(key, elements) == [name |-> "LPUSH", key |-> key, elements |-> elements]
LLEN(key) == [name |-> "LLEN", key |-> key]
LPOP(key, count) == [name |-> "LPOP", key |-> key, count |-> count]
BLPOP(keys, timeout) == [name |-> "BLPOP", keys |-> keys, timeout |-> timeout]
INCR(key) == [name |-> "INCR", key |-> key]
MULTI == [name |-> "MULTI"]
EXEC == [name |-> "EXEC"]
DISCARD == [name |-> "DISCARD"]
INFO(section) == [name |-> "INFO", section |-> section]
REPLCONF == [name |-> "REPLCONF"]
PSYNC(replication_id, offset) ==
    [name |-> "PSYNC", replication_id |-> replication_id, offset |-> offset]

\* the three results of Command::try_from: Ok(cmd), Err(e) and a panic
Ok(cmd) == [r |-> "Ok", cmd |-> cmd]
Bail(msg) == [r |-> "Err", msg |-> msg]
Panic == [r |-> "Panic"]

\* the command names Command::try_from matches on (cmd.rs:82-327)
nPING == <<"P","I","N","G">>
nECHO == <<"E","C","H","O">>
nGET == <<"G","E","T">>
nSET == <<"S","E","T">>
nRPUSH == <<"R","P","U","S","H">>
nLRANGE == <<"L","R","A","N","G","E">>
nLPUSH == <<"L","P","U","S","H">>
nLLEN == <<"L","L","E","N">>
nLPOP == <<"L","P","O","P">>
nBLPOP == <<"B","L","P","O","P">>
nINCR == <<"I","N","C","R">>
nMULTI == <<"M","U","L","T","I">>
nEXEC == <<"E","X","E","C">>
nDISCARD == <<"D","I","S","C","A","R","D">>
nREPLCONF == <<"R","E","P","L","C","O","N","F">>
nINFO == <<"I","N","F","O">>
nPSYNC == <<"P","S","Y","N","C">>
nPX == <<"P","X">>
sReplication == <<"r","e","p","l","i","c","a","t","i","o","n">>

AllBulk(ps) == \A i \in 1..Len(ps) : IsBulk(ps[i])
Texts(ps) == [i \in 1..Len(ps) |-> ps[i].s]

TryFromPING(parts) ==
    IF Len(parts) > 1 THEN Bail(<<"PING command takes no arguments">>)
    ELSE Ok(PING)

TryFromECHO(parts) ==
    IF Len(parts) # 2 THEN Bail(<<"ECHO command requires exactly 1 argument">>)
    ELSE IF IsBulk(parts[2]) THEN Ok(ECHO(parts[2].s))
    ELSE Bail(<<"ECHO message must be a bulk string">>)

TryFromGET(parts) ==
    IF Len(parts) # 2 THEN Bail(<<"GET command requires exactly 1 argument">>)
    ELSE IF IsBulk(parts[2]) THEN Ok(GET(parts[2].s))
    ELSE Bail(<<"GET key must be a bulk string">>)

TryFromSET(parts) ==
    IF Len(parts) < 3 \/ Len(parts) > 5
    THEN Bail(<<"SET command requires 2 or 4 arguments (key, value, [PX, milliseconds])">>)
    ELSE IF ~IsBulk(parts[2]) THEN Bail(<<"SET key must be a bulk string">>)
    ELSE IF ~IsBulk(parts[3]) THEN Bail(<<"SET value must be a bulk string">>)
    ELSE IF Len(parts) > 3
    THEN IF IsBulk(parts[4]) /\ Len(parts) >= 5 /\ IsBulk(parts[5])
         THEN IF ToUppercase(parts[4].s) = nPX
              THEN LET milliseconds == ParseU64(parts[5].s)
                   IN  IF milliseconds = <<>>
                       THEN Bail(<<"PX value must be a valid number">>)
                       ELSE Ok(SET(parts[2].s, parts[3].s, milliseconds))
              ELSE Bail(<<"Only PX option is supported for SET">>)
         ELSE Bail(<<"Invalid SET options format">>)
    ELSE Ok(SET(parts[2].s, parts[3].s, <<>>))

TryFromRPUSH(parts) ==
    IF Len(parts) < 3
    THEN Bail(<<"RPush command requires 3 or more arguments RPUSH key element [element ...]">>)
    ELSE IF ~IsBulk(parts[2]) THEN Bail(<<"RPUSH key must be a bulk string">>)
    ELSE IF ~AllBulk(SubSeq(parts, 3, Len(parts)))
    THEN Bail(<<"RPUSH values must be bulk strings">>)
    ELSE Ok(RPUSH(parts[2].s, Texts(SubSeq(parts, 3, Len(parts)))))

TryFromLRANGE(parts) ==
    IF Len(parts) # 4 THEN Bail(<<"LRANGE LRANGE key start stop">>)
    ELSE IF IsBulk(parts[2]) /\ IsBulk(parts[3]) /\ IsBulk(parts[4])
    THEN LET start == ParseI64(parts[3].s)
             stop == ParseI64(parts[4].s)
         IN  IF start = <<>> THEN Bail(<<"Failed to parse Start ">>)
             ELSE IF stop = <<>> THEN Bail(<<"Failed to parse Stop">>)
             ELSE Ok(LRANGE(parts[2].s, start[1], stop[1]))
    ELSE Bail(<<"LRANGE params must be a bulk string, got (">>
              \o DebugPretty(parts[2], 0) \o <<",">>
              \o DebugPretty(parts[3], 0) \o <<",">>
              \o DebugPretty(parts[4], 0) \o <<")">>)

TryFromLPUSH(parts) ==
    IF Len(parts) < 3
    THEN Bail(<<"LPush command requires 3 or more arguments RPUSH key element [element ...]">>)
    ELSE IF ~IsBulk(parts[2]) THEN Bail(<<"LPUSH key must be a bulk string">>)
    ELSE IF ~AllBulk(SubSeq(parts, 3, Len(parts)))
    THEN Bail(<<"LPUSH values must be bulk strings">>)
    ELSE Ok(LPUSH(parts[2].s, Texts(SubSeq(parts, 3, Len(parts)))))

TryFromLLEN(parts) ==
    IF Len(parts) # 2 THEN Bail(<<"LLEN command requires exactly 1 argument">>)
    ELSE IF IsBulk(parts[2]) THEN Ok(LLEN(parts[2].s))
    ELSE Bail(<<"LLEN key must be a bulk string">>)

\* the count is taken only from a bulk string: any other frame in its place
\* is read as "no count" (cmd.rs:223-230)
TryFromLPOP(parts) ==
    IF Len(parts) < 2 \/ Len(parts) > 3
    THEN Bail(<<"LPOP command requires 1 or 2 arguments (key, [count])">>)
    ELSE IF ~IsBulk(parts[2]) THEN Bail(<<"LPOP key must be a bulk string">>)
    ELSE IF Len(parts) >= 3 /\ IsBulk(parts[3])
    THEN LET count == ParseI64(parts[3].s)
         IN  IF count = <<>> THEN Bail(<<"LPOP count mas be a valid integer">>)
             ELSE Ok(LPOP(parts[2].s, count))
    ELSE Ok(LPOP(parts[2].s, <<>>))

TryFromBLPOP(parts) ==
    IF Len(parts) < 2 THEN Bail(<<"BLPOP requires at least one key and a timeout">>)
    ELSE LET keys == SubSeq(parts, 2, Len(parts) - 1)
             last == parts[Len(parts)]
         IN  IF ~AllBulk(keys) THEN Bail(<<"BLPOP keys must be bulk strings">>)
             ELSE IF keys = <<>> THEN Bail(<<"BLPOP requires at least one key">>)
             ELSE IF ~IsBulk(last) THEN Bail(<<"Timeout must be a bulk string">>)
             ELSE IF ParseU64(last.s) = <<>>
             THEN Bail(<<"Timeout must be a valid unsigned integer">>)
             ELSE Ok(BLPOP(Texts(keys), ParseU64(last.s)[1]))

TryFromINCR(parts) ==
    IF Len(parts) # 2 THEN Bail(<<"INCR command requires exactly 1 argument">>)
    ELSE IF IsBulk(parts[2]) THEN Ok(INCR(parts[2].s))
    ELSE Bail(<<"GET key must be a bulk string">>)

TryFromMULTI(parts) ==
    IF Len(parts) > 1 THEN Bail(<<"MULTI command takes no arguments">>)
    ELSE Ok(MULTI)

TryFromEXEC(parts) ==
    IF Len(parts) > 1 THEN Bail(<<"EXEC command takes no arguments">>)
    ELSE Ok(EXEC)

TryFromDISCARD(parts) ==
    IF Len(parts) > 1 THEN Bail(<<"DISCARD command takes no arguments">>)
    ELSE Ok(DISCARD)

TryFromREPLCONF(parts) == Ok(REPLCONF)

\* parts.get(2): the section is read from the THIRD element of the array
TryFromINFO(parts) ==
    IF Len(parts) >= 3
    THEN IF IsBulk(parts[3])
         THEN IF parts[3].s = sReplication THEN Ok(INFO(<<"Replication">>))
              ELSE Bail(<<"ERR unsupported INFO section">>)
         ELSE Bail(<<"ERR expected BulkString for section">>)
    ELSE Ok(INFO(<<>>))

\* master_offset.parse().expect(..): an offset that is no i64 panics
TryFromPSYNC(parts) ==
    IF Len(parts) # 3 THEN Bail(<<"expected 3 parameters in psync">>)
    ELSE IF IsBulk(parts[2]) /\ IsBulk(parts[3])
    THEN IF ParseI64(parts[3].s) = <<>> THEN Panic
         ELSE Ok(PSYNC(parts[2].s, ParseI64(parts[3].s)[1]))
    ELSE Bail(<<"lazy to handle this">>)

\* Command::try_from(resp)
TryFrom(resp) ==
    IF resp.t # "Array" THEN Bail(<<"Command must be an array of RESP types">>)
    ELSE LET parts == resp.a IN
    IF parts = <<>> THEN Bail(<<"Empty command array">>)
    ELSE IF parts[1].t \notin {"BulkString", "SimpleString"}
    THEN Bail(<<"Command must be a string type">>)
    ELSE LET cmd == ToUppercase(parts[1].s) IN
    CASE cmd = nPING -> TryFromPING(parts)
      [] cmd = nECHO -> TryFromECHO(parts)
      [] cmd = nGET -> TryFromGET(parts)
      [] cmd = nSET -> TryFromSET(parts)
      [] cmd = nRPUSH -> TryFromRPUSH(parts)
      [] cmd = nLRANGE -> TryFromLRANGE(parts)
      [] cmd = nLPUSH -> TryFromLPUSH(parts)
      [] cmd = nLLEN -> TryFromLLEN(parts)
      [] cmd = nLPOP -> TryFromLPOP(parts)
      [] cmd = nBLPOP -> TryFromBLPOP(parts)
      [] cmd = nINCR -> TryFromINCR(parts)
      [] cmd = nMULTI -> TryFromMULTI(parts)
      [] cmd = nEXEC -> TryFromEXEC(parts)
      [] cmd = nDISCARD -> TryFromDISCARD(parts)
      [] cmd = nREPLCONF -> TryFromREPLCONF(parts)
      [] cmd = nINFO -> TryFromINFO(parts)
      [] cmd = nPSYNC -> TryFromPSYNC(parts)
      [] OTHER -> Bail(<<"Unknown command: ">> \o cmd)

\* ------------------------------------------------------------------ HashMap
MapInsert(m, k, v) == [x \in DOMAIN m \cup {k} |-> IF x = k THEN v ELSE m[x]]
MapRemove(m, k) == [x \in DOMAIN m \ {k} |-> m[x]]
EmptyMap == [x \in {} |-> <<>>]

\* ------------------------------------------------------------ string store
\* Value::new(data, expiry) at the instant t
ValueNew(data, expiry, t) ==
    [data |-> data,
     expires_at |-> IF expiry = <<>> THEN <<>> ELSE << t + expiry[1] >>]

\* a slip of the comparison: the entry is expired at its expiration instant
IsExpiredAtExpiry(entry, t) == entry.expires_at # <<>> /\ t >= entry.expires_at[1]

\* Value::is_expired(now)
IsExpired(entry, t) == entry.expires_at # <<>> /\ t > entry.expires_at[1]

\* a slip of the set: a value without expiration inherits the expiration of
\* the entry it replaces
StringsSetKeepsExpiry(inner, key, value, expiry, t) ==
    [inner |-> MapInsert(inner, key,
                 IF expiry = <<>> /\ key \in DOMAIN inner
                 THEN [data |-> value, expires_at |-> inner[key].expires_at]
                 ELSE ValueNew(value, expiry, t)),
     resp |-> SimpleString(<<"OK">>)]

\* Strings::set; every store operation yields the store after it and the reply
StringsSet(inner, key, value, expiry, t) ==
    [inner |-> MapInsert(inner, key, ValueNew(value, expiry, t)),
     resp |-> SimpleString(<<"OK">>)]

\* a slip of the increment: data that is no number is refused and removed
StringsIncrementClears(inner, key, t) ==
    IF key \in DOMAIN inner /\ ~IsExpired(inner[key], t)
    THEN LET current_value == ParseI64(inner[key].data)
         IN  IF current_value # <<>>
             THEN LET new_value == AddOne(inner[key].data)
                  IN  [inner |-> [inner EXCEPT ![key].data = new_value.text],
                       resp |-> Integer(new_value.value),
                       overflow |-> new_value.overflow]
             ELSE [inner |-> MapRemove(inner, key),
                   resp |-> SimpleError(<<"ERR value is not an integer or out of range">>),
                   overflow |-> FALSE]
    ELSE IF key \in DOMAIN inner
    THEN [inner |-> MapRemove(inner, key),
          resp |-> SimpleError(<<"Key expired - later stage">>),
          overflow |-> FALSE]
    ELSE [inner |-> MapInsert(inner, key, ValueNew(<<"1">>, <<>>, t)),
          resp |-> Integer(1),
          overflow |-> FALSE]

\* a slip of the increment: the new value is answered but not written back
StringsIncrementForgets(inner, key, t) ==
    IF key \in DOMAIN inner /\ ~IsExpired(inner[key], t)
    THEN LET current_value == ParseI64(inner[key].data)
         IN  IF current_value # <<>>
             THEN [inner |-> inner,
                   resp |-> Integer(AddOne(inner[key].data).value),
                   overflow |-> AddOne(inner[key].data).overflow]
             ELSE [inner |-> inner,
                   resp |-> SimpleError(<<"ERR value is not an integer or out of range">>),
                   overflow |-> FALSE]
    ELSE IF key \in DOMAIN inner
    THEN [inner |-> MapRemove(inner, key),
          resp |-> SimpleError(<<"Key expired - later stage">>),
          overflow |-> FALSE]
    ELSE [inner |-> MapInsert(inner, key, ValueNew(<<"1">>, <<>>, t)),
          resp |-> Integer(1),
          overflow |-> FALSE]

\* a slip of the increment: the counted entry loses its expiration
StringsIncrementPersists(inner, key, t) ==
    IF key \in DOMAIN inner /\ ~IsExpired(inner[key], t)
    THEN LET current_value == ParseI64(inner[key].data)
         IN  IF current_value # <<>>
             THEN LET new_value == AddOne(inner[key].data)
                  IN  [inner |-> [inner EXCEPT ![key] =
                                    [data |-> new_value.text, expires_at |-> <<>>]],
                       resp |-> Integer(new_value.value),
                       overflow |-> new_value.overflow]
             ELSE [inner |-> inner,
                   resp |-> SimpleError(<<"ERR value is not an integer or out of range">>),
                   overflow |-> FALSE]
    ELSE IF key \in DOMAIN inner
    THEN [inner |-> MapRemove(inner, key),
          resp |-> SimpleError(<<"Key expired - later stage">>),
          overflow |-> FALSE]
    ELSE [inner |-> MapInsert(inner, key, ValueNew(<<"1">>, <<>>, t)),
          resp |-> Integer(1),
          overflow |-> FALSE]

\* Strings::increment.  overflow tells that current_value + 1 overflows: a
\* build with overflow checks panics there, a build without them goes on
\* with the wrapped sum, which is the store and the reply given here.
StringsIncrement(inner, key, t) ==
    IF key \in DOMAIN inner /\ ~IsExpired(inner[key], t)
    THEN LET current_value == ParseI64(inner[key].data)
         IN  IF current_value # <<>>
             THEN LET new_value == AddOne(inner[key].data)
                  IN  [inner |-> [inner EXCEPT ![key].data = new_value.text],
                       resp |-> Integer(new_value.value),
                       overflow |-> new_value.overflow]
             ELSE [inner |-> inner,
                   resp |-> SimpleError(<<"ERR value is not an integer or out of range">>),
                   overflow |-> FALSE]
    ELSE IF key \in DOMAIN inner
    THEN [inner |-> MapRemove(inner, key),
          resp |-> SimpleError(<<"Key expired - later stage">>),
          overflow |-> FALSE]
    ELSE [inner |-> MapInsert(inner, key, ValueNew(<<"1">>, <<>>, t)),
          resp |-> Integer(1),
          overflow |-> FALSE]

\* Strings::get
StringsGet(inner, key, t) ==
    IF key \in DOMAIN inner /\ ~IsExpired(inner[key], t)
    THEN [inner |-> inner, resp |-> BulkString(inner[key].data)]
    ELSE IF key \in DOMAIN inner
    THEN [inner |-> IF IsExpired(inner[key], t) THEN MapRemove(inner, key) ELSE inner,
          resp |-> NullBulkString]
    ELSE [inner |-> inner, resp |-> NullBulkString]

\* -------------------------------------------------------------- list store
BulkStrings(vals) == [i \in 1..Len(vals) |-> BulkString(vals[i])]

\* HashMap::entry(key).or_default()
EntryOrDefault(inner, key) == IF key \in DOMAIN inner THEN inner[key] ELSE <<>>

\* Lists::get_list_len
ListsGetListLen(inner, key) ==
    [inner |-> inner,
     resp |-> Integer(IF key \in DOMAIN inner THEN Len(inner[key]) ELSE 0)]

\* for v in values { list.push_front(v) }
RECURSIVE PushFrontAll(_, _)
PushFrontAll(list, values) ==
    IF values = <<>> THEN list
    ELSE PushFrontAll(<< Head(values) >> \o list, Tail(values))

\* a push that puts the values, in their order, before the list
ListsLpushInOrder(inner, key, values) ==
    LET list == values \o EntryOrDefault(inner, key)
    IN  [inner |-> MapInsert(inner, key, list), resp |-> Integer(Len(list))]

\* Lists::lpush
ListsLpush(inner, key, values) ==
    LET list == PushFrontAll(EntryOrDefault(inner, key), values)
    IN  [inner |-> MapInsert(inner, key, list), resp |-> Integer(Len(list))]

Max(a, b) == IF a > b THEN a ELSE b
Min(a, b) == IF a < b THEN a ELSE b

\* a pop that takes a negative count for its magnitude
ListsLeftPopMagnitude(inner, key, count) ==
    IF key \notin DOMAIN inner \/ inner[key] = <<>>
    THEN [inner |-> inner, resp |-> NullBulkString]
    ELSE LET list == inner[key] IN
         IF count # <<>>
         THEN LET n == Min(Max(count[1], 0 - count[1]), Len(list))
              IN  [inner |-> [inner EXCEPT ![key] = SubSeq(list, n + 1, Len(list))],
                   resp |-> Array(BulkStrings(SubSeq(list, 1, n)))]
         ELSE [inner |-> [inner EXCEPT ![key] = Tail(list)],
               resp |-> BulkString(Head(list))]

\* Lists::left_pop
ListsLeftPop(inner, key, count) ==
    IF key \notin DOMAIN inner \/ inner[key] = <<>>
    THEN [inner |-> inner, resp |-> NullBulkString]
    ELSE LET list == inner[key] IN
         IF count # <<>>
         THEN LET n == Min(Max(count[1], 0), Len(list))
              IN  [inner |-> [inner EXCEPT ![key] = SubSeq(list, n + 1, Len(list))],
                   resp |-> Array(BulkStrings(SubSeq(list, 1, n)))]
         ELSE [inner |-> [inner EXCEPT ![key] = Tail(list)],
               resp |-> BulkString(Head(list))]

\* a push that puts the values before the list
ListsRpushInFront(inner, key, values) ==
    LET list == values \o EntryOrDefault(inner, key)
    IN  [inner |-> MapInsert(inner, key, list), resp |-> Integer(Len(list))]

\* Lists::rpush
ListsRpush(inner, key, values) ==
    LET list == EntryOrDefault(inner, key) \o values
    IN  [inner |-> MapInsert(inner, key, list), resp |-> Integer(Len(list))]

\* a normalisation that leaves an index beyond the end where it is
normalize_index_unclamped(index, len) ==
    LET normalized == IF index < 0 THEN len + index ELSE index
    IN  Max(normalized, 0)

\* normalize_index(index, len), in 0-based positions
normalize_index(index, len) ==
    LET normalized == IF index < 0 THEN len + index ELSE index
    IN  Min(Max(normalized, 0), len - 1)

\* Lists::lrange
ListsLrange(inner, key, start, stop) ==
    IF key \notin DOMAIN inner THEN [inner |-> inner, resp |-> Array(<<>>)]
    ELSE LET list == inner[key]
             len == Len(list)
         IN  IF len = 0 THEN [inner |-> inner, resp |-> Array(<<>>)]
             ELSE LET start_idx == normalize_index(start, len)
                      stop_idx == normalize_index(stop, len)
                  IN  IF start_idx > stop_idx
                      THEN [inner |-> inner, resp |-> Array(<<>>)]
                      ELSE [inner |-> inner,
                            resp |-> Array(BulkStrings(
                                        SubSeq(list, start_idx + 1, stop_idx + 1)))]

\* ----------------------------------------------------------- storage actor
\* One iteration of StorageActor::run on the message cmd at the instant t:
\* the two stores after it, and either the reply handed to response_tx or
\* a panic of the actor task (unimplemented!() on BLPOP).  overflow tells
\* that the iteration went through an overflowing addition, where a build
\* with overflow checks panics instead.
StorageActorRun(cmd, ss, ls, t) ==
    LET Str(r) == [string_store |-> r.inner, list_store |-> ls,
                   resp |-> r.resp, panic |-> FALSE, overflow |-> FALSE]
        Lst(r) == [string_store |-> ss, list_store |-> r.inner,
                   resp |-> r.resp, panic |-> FALSE, overflow |-> FALSE]
        Inc(r) == [string_store |-> r.inner, list_store |-> ls,
                   resp |-> r.resp, panic |-> FALSE, overflow |-> r.overflow]
    IN  CASE cmd.name = "SET" -> Str(StringsSet(ss, cmd.key, cmd.val, cmd.px, t))
          [] cmd.name = "GET" -> Str(StringsGet(ss, cmd.key, t))
          [] cmd.name = "LLEN" -> Lst(ListsGetListLen(ls, cmd.key))
          [] cmd.name = "LPUSH" -> Lst(ListsLpush(ls, cmd.key, cmd.elements))
          [] cmd.name = "RPUSH" -> Lst(ListsRpush(ls, cmd.key, cmd.elements))
          [] cmd.name = "LRANGE" -> Lst(ListsLrange(ls, cmd.key, cmd.start, cmd.stop))
          [] cmd.name = "LPOP" -> Lst(ListsLeftPop(ls, cmd.key, cmd.count))
          [] cmd.name = "BLPOP" ->
                [string_store |-> ss, list_store |-> ls,
                 resp |-> NullBulkString, panic |-> TRUE, overflow |-> FALSE]
          [] cmd.name = "INCR" -> Inc(StringsIncrement(ss, cmd.key, t))
          [] OTHER ->
                [string_store |-> ss, list_store |-> ls,
                 resp |-> SimpleError(<<"Unsupported command">>),
                 panic |-> FALSE, overflow |-> FALSE]

\* ------------------------------------------------------------------- state
VARIABLES
    server_info,        \* the ServerInfo shared by all connections
    transaction_queue,  \* Connection.transaction_queue: Option<VecDeque<Command>>
    pc,                 \* where each connection task stands:
                        \*   "next"     in framed.next() of Connection::handle
                        \*   "await"    handle_regular_command, in storage.send
                        \*   "exec"     execute_transaction, in storage.send
                        \*   "panicked" the task ended in a panic
                        \*   "dropped"  the task was dropped while suspended
    queued_cmds,        \* execute_transaction: the commands not yet run
    results,            \* execute_transaction: the replies collected so far
    nsent,              \* frames each connection has written to its client
    reply,              \* the last frame written to the client: Option
    nrecv,              \* frames the connection has taken from framed.next()
    discarded,          \* nrecv at the last DISCARD handled inside MULTI
    mailbox,            \* the unbounded channel cmd_tx -> cmd_rx
    slot,               \* per connection, the oneshot of its pending send:
                        \*   <<>> nothing yet, <<"Ok", r>> the reply,
                        \*   <<"Err">> response_tx dropped without a reply
    actor,              \* the StorageActor task: "running" or "panicked"
    string_store,       \* StorageActor.string_store.inner
    list_store,         \* StorageActor.list_store.inner
    now,                \* the monotonic clock (Instant::now()), in milliseconds
    sent,               \* the frames a client has encoded and written
    wire,               \* their bytes on the way, as the segments they arrive in
    src,                \* the read buffer of the Framed the segments arrive in
    outcome,            \* what the last call of decode returned: Option
    yielded,            \* the frames decode has returned so far
    config,             \* the ServerConfig: port and replica_of (Option)
    handshake,          \* where RedisServer::run stands: "connect", the
                        \*   message whose reply it awaits ("ping", "port",
                        \*   "capa", "psync"), "accept" (the accept loop),
                        \*   "failed" (run returned Err) or "panicked"
    to_master           \* the frames run has written to the master

connVars ==
    <<transaction_queue, pc, queued_cmds, results, reply, nsent, nrecv, discarded>>
actorVars == <<mailbox, slot, actor, string_store, list_store>>
codecVars == <<sent, wire, src, outcome, yielded>>
replVars == <<config, handshake, to_master>>
vars == <<server_info, connVars, actorVars, now, codecVars, replVars>>

DEFAULT_MASTER_ID == <<"8371b4fb1155b71f4a04d3e1bc3e18c4a990aeeb">>

\* ServerInfo::from(cfg): master without --replicaof, slave with it
ServerInfoFrom(replica_of) ==
    [role |-> IF replica_of = <<>> THEN "Master" ELSE "Slave",
     connected_slaves |-> 0,
     master_replid |-> DEFAULT_MASTER_ID,
     master_repl_offset |-> 0]

\* impl Display for ServerInfo: write! for the role, writeln! for the rest
ServerInfoToString(info) ==
    << IF info.role = "Master" THEN "role:master" ELSE "role:slave" >>
    \o <<"connected_slaves:">> \o I64ToString(info.connected_slaves) \o <<"\n">>
    \o <<"master_replid:">> \o info.master_replid \o <<"\n">>
    \o <<"master_repl_offset:">> \o I64ToString(info.master_repl_offset) \o <<"\n">>

\* Connection::retrieve_info
RetrieveInfo == BulkString(ServerInfoToString(server_info))

\* RedisServer::new, and run up to its first suspension: a master goes
\* straight to the accept loop, a replica starts with the handshake
ServerNew(cfg) ==
    /\ server_info = ServerInfoFrom(cfg.replica_of)
    /\ transaction_queue = [c \in Conns |-> <<>>]
    /\ pc = [c \in Conns |-> "next"]
    /\ queued_cmds = [c \in Conns |-> <<>>]
    /\ results = [c \in Conns |-> <<>>]
    /\ reply = [c \in Conns |-> <<>>]
    /\ nsent = [c \in Conns |-> 0]
    /\ nrecv = [c \in Conns |-> 0]
    /\ discarded = [c \in Conns |-> 0]
    /\ mailbox = <<>>
    /\ slot = [c \in Conns |-> <<>>]
    /\ actor = "running"
    /\ string_store = EmptyMap
    /\ list_store = EmptyMap
    /\ now = 0
    /\ sent = <<>>
    /\ wire = <<>>
    /\ src = <<>>
    /\ outcome = <<>>
    /\ yielded = <<>>
    /\ config = cfg
    /\ handshake = IF cfg.replica_of = <<>> THEN "accept" ELSE "connect"
    /\ to_master = <<>>

\* ServerConfig::from_cli without arguments: the default port, no master
Init == ServerNew([port |-> 6379, replica_of |-> <<>>])

\* ------------------------------------------------------- connection machine
InMulti(c) == transaction_queue[c] # <<>>

\* framed.send(response) of Connection::handle, then back to framed.next()
Send(c, response) ==
    /\ reply' = [reply EXCEPT ![c] = << response >>]
    /\ nsent' = [nsent EXCEPT ![c] = @ + 1]
    /\ pc' = [pc EXCEPT ![c] = "next"]

\* a panic unwinds the connection task
TaskPanics(c) ==
    /\ pc' = [pc EXCEPT ![c] = "panicked"]
    /\ UNCHANGED <<reply, nsent>>

\* a slip of the send: the commands of a running transaction go to the head
\* of the channel
StorageSendFirst(c, cmd, at, waiting) ==
    IF actor = "running"
    THEN /\ mailbox' = IF waiting = "exec"
                       THEN << [cmd |-> cmd, from |-> c, at |-> at] >> \o mailbox
                       ELSE Append(mailbox, [cmd |-> cmd, from |-> c, at |-> at])
         /\ pc' = [pc EXCEPT ![c] = waiting]
         /\ UNCHANGED <<reply, nsent>>
    ELSE /\ TaskPanics(c)
         /\ UNCHANGED mailbox

\* StorageHandle::send up to resp_rx.await: the command goes into the channel,
\* or the task panics ("Actor task failed") when the receiver is gone.
\* at is the number of the frame the command arrived in.
StorageSend(c, cmd, at, waiting) ==
    IF actor = "running"
    THEN /\ mailbox' = Append(mailbox, [cmd |-> cmd, from |-> c, at |-> at])
         /\ pc' = [pc EXCEPT ![c] = waiting]
         /\ UNCHANGED <<reply, nsent>>
    ELSE /\ TaskPanics(c)
         /\ UNCHANGED mailbox

\* The loop of execute_transaction from one suspension to the next: PING and
\* ECHO are answered in place; a storage command stops the loop in
\* storage.send; a queued MULTI or EXEC panics; an empty queue ends it.
RECURSIVE ExecuteTransactionLoop(_, _)
ExecuteTransactionLoop(queued, res) ==
    IF queued = <<>> THEN [k |-> "done", results |-> res]
    ELSE LET cmd == Head(queued).cmd IN
         CASE cmd.name = "PING" ->
                ExecuteTransactionLoop(Tail(queued), Append(res, SimpleString(<<"PONG">>)))
           [] cmd.name = "ECHO" ->
                ExecuteTransactionLoop(Tail(queued), Append(res, BulkString(cmd.msg)))
           [] cmd.name \in {"EXEC", "MULTI"} -> [k |-> "panic"]
           [] OTHER -> [k |-> "send", entry |-> Head(queued),
                        queued |-> Tail(queued), results |-> res]

\* Connection::execute_transaction, entered with the queue taken by EXEC or
\* resumed with the reply of the storage actor
ExecuteTransaction(c, queued, res) ==
    LET l == ExecuteTransactionLoop(queued, res) IN
    CASE l.k = "done" ->
            /\ Send(c, Array(l.results))
            /\ queued_cmds' = [queued_cmds EXCEPT ![c] = <<>>]
            /\ results' = [results EXCEPT ![c] = <<>>]
            /\ UNCHANGED mailbox
      [] l.k = "panic" ->
            /\ TaskPanics(c)
            /\ UNCHANGED <<queued_cmds, results, mailbox>>
      [] l.k = "send" ->
            /\ StorageSend(c, l.entry.cmd, l.entry.at, "exec")
            /\ queued_cmds' = [queued_cmds EXCEPT ![c] = l.queued]
            /\ results' = [results EXCEPT ![c] = l.results]

\* a slip of the EXEC arm: the queue is read but not taken
TxExecKeepsQueue(c) ==
    /\ UNCHANGED <<transaction_queue, discarded>>
    /\ IF transaction_queue[c][1] = <<>>
       THEN /\ Send(c, Array(<<>>))
            /\ UNCHANGED <<queued_cmds, results, mailbox>>
       ELSE ExecuteTransaction(c, transaction_queue[c][1], <<>>)

\* handle_transaction_command, Command::EXEC: the queue is taken, which ends
\* MULTI, and then run
TxExec(c) ==
    /\ transaction_queue' = [transaction_queue EXCEPT ![c] = <<>>]
    /\ UNCHANGED discarded
    /\ IF transaction_queue[c][1] = <<>>
       THEN /\ Send(c, Array(<<>>))
            /\ UNCHANGED <<queued_cmds, results, mailbox>>
       ELSE ExecuteTransaction(c, transaction_queue[c][1], <<>>)

\* a slip of the DISCARD arm: OK is answered but the queue is left in place
TxDiscardKeepsQueue(c, at) ==
    /\ discarded' = [discarded EXCEPT ![c] = at]
    /\ Send(c, SimpleString(<<"OK">>))
    /\ UNCHANGED <<transaction_queue, queued_cmds, results, mailbox>>

\* handle_transaction_command, Command::DISCARD
TxDiscard(c, at) ==
    /\ transaction_queue' = [transaction_queue EXCEPT ![c] = <<>>]
    /\ discarded' = [discarded EXCEPT ![c] = at]
    /\ Send(c, SimpleString(<<"OK">>))
    /\ UNCHANGED <<queued_cmds, results, mailbox>>

\* a slip of the last arm: the command is run at once instead of queued
TxQueueRunsAtOnce(c, cmd, at) ==
    /\ StorageSend(c, cmd, at, "await")
    /\ UNCHANGED <<transaction_queue, discarded, queued_cmds, results>>

\* handle_transaction_command, every other command (MULTI too): queued
TxQueue(c, cmd, at) ==
    /\ transaction_queue' = [transaction_queue EXCEPT
            ![c] = << Append(@[1], [cmd |-> cmd, at |-> at]) >>]
    /\ Send(c, SimpleString(<<"QUEUED">>))
    /\ UNCHANGED <<discarded, queued_cmds, results, mailbox>>

\* Connection::handle_transaction_command
HandleTransactionCommand(c, cmd, at) ==
    CASE cmd.name = "EXEC" -> TxExec(c)
      [] cmd.name = "DISCARD" -> TxDiscard(c, at)
      [] OTHER -> TxQueue(c, cmd, at)

\* Connection::handle_regular_command
HandleRegularCommand(c, cmd, at) ==
    LET Answer(response) ==
            /\ Send(c, response)
            /\ UNCHANGED <<transaction_queue, mailbox>>
    IN  /\ UNCHANGED <<discarded, queued_cmds, results>>
        /\ CASE cmd.name = "PING" -> Answer(SimpleString(<<"PONG">>))
             [] cmd.name = "ECHO" -> Answer(BulkString(cmd.msg))
             [] cmd.name = "MULTI" ->
                    /\ transaction_queue' = [transaction_queue EXCEPT ![c] = << <<>> >>]
                    /\ Send(c, SimpleString(<<"OK">>))
                    /\ UNCHANGED mailbox
             [] cmd.name = "EXEC" -> Answer(SimpleError(<<"ERR EXEC without MULTI">>))
             [] cmd.name = "DISCARD" ->
                    Answer(SimpleError(<<"ERR DISCARD without MULTI">>))
             [] cmd.name = "INFO" -> Answer(RetrieveInfo)
             [] cmd.name = "REPLCONF" -> Answer(SimpleString(<<"OK">>))
             [] cmd.name = "PSYNC" ->
                    Answer(SimpleString(<<"FULLRESYNC ">> \o DEFAULT_MASTER_ID
                                        \o <<" ">> \o I64ToString(0)))
             [] OTHER ->
                    /\ StorageSend(c, cmd, at, "await")
                    /\ UNCHANGED transaction_queue

\* a slip of the dispatch: one transaction queue, that of connection 1, for
\* the whole server
ProcessCommandShared(c, cmd, at) ==
    IF InMulti(1) THEN HandleTransactionCommand(1, cmd, at)
    ELSE HandleRegularCommand(c, cmd, at)

\* Connection::process_command
ProcessCommand(c, cmd, at) ==
    IF InMulti(c) THEN HandleTransactionCommand(c, cmd, at)
    ELSE HandleRegularCommand(c, cmd, at)

\* One turn of the loop of Connection::handle: framed.next() yields the
\* frame resp, the command is parsed and processed up to the reply or up to
\* the suspension in storage.send.
Handle(c, resp) ==
    /\ handshake = "accept"
    /\ pc[c] = "next"
    /\ nrecv' = [nrecv EXCEPT ![c] = @ + 1]
    /\ UNCHANGED <<server_info, replVars, codecVars, slot, actor, string_store, list_store, now>>
    /\ LET cmd == TryFrom(resp) IN
       CASE cmd.r = "Ok" -> ProcessCommand(c, cmd.cmd, nrecv[c] + 1)
         [] cmd.r = "Err" ->
                /\ Send(c, SimpleError(cmd.msg))
                /\ UNCHANGED <<transaction_queue, discarded, queued_cmds, results, mailbox>>
         [] cmd.r = "Panic" ->
                /\ TaskPanics(c)
                /\ UNCHANGED <<transaction_queue, discarded, queued_cmds, results, mailbox>>

\* resp_rx.await of StorageHandle::send completes: with the reply, or with
\* a RecvError that .expect("Actor response failed") turns into a panic
Resume(c) ==
    /\ pc[c] \in {"await", "exec"}
    /\ slot[c] # <<>>
    /\ slot' = [slot EXCEPT ![c] = <<>>]
    /\ UNCHANGED <<server_info, replVars, codecVars, transaction_queue, nrecv, discarded, actor,
                   string_store, list_store, now>>
    /\ IF slot[c][1] = "Err"
       THEN /\ TaskPanics(c)
            /\ UNCHANGED <<queued_cmds, results, mailbox>>
       ELSE IF pc[c] = "await"
       THEN /\ Send(c, slot[c][2])
            /\ UNCHANGED <<queued_cmds, results, mailbox>>
       ELSE ExecuteTransaction(c, queued_cmds[c], Append(results[c], slot[c][2]))

\* a slip of the loop: the message of a sender that is gone is thrown away
\* unexecuted
ActorSkipsOrphans ==
    /\ actor = "running"
    /\ mailbox # <<>>
    /\ UNCHANGED <<server_info, replVars, codecVars, connVars, now, actor>>
    /\ LET m == Head(mailbox)
           r == StorageActorRun(m.cmd, string_store, list_store, now)
       IN  /\ ~r.panic
           /\ mailbox' = Tail(mailbox)
           /\ IF pc[m.from] = "dropped"
              THEN UNCHANGED <<slot, string_store, list_store>>
              ELSE /\ slot' = [slot EXCEPT ![m.from] = <<"Ok", r.resp>>]
                   /\ string_store' = r.string_store
                   /\ list_store' = r.list_store

\* a slip of the receive: the newest message of the channel is taken, not the
\* oldest
ActorRunsNewest ==
    /\ actor = "running"
    /\ mailbox # <<>>
    /\ UNCHANGED <<server_info, replVars, codecVars, connVars, now, actor>>
    /\ LET m == mailbox[Len(mailbox)]
           r == StorageActorRun(m.cmd, string_store, list_store, now)
       IN  /\ ~r.panic
           /\ mailbox' = SubSeq(mailbox, 1, Len(mailbox) - 1)
           /\ slot' = IF pc[m.from] = "dropped" THEN slot
                      ELSE [slot EXCEPT ![m.from] = <<"Ok", r.resp>>]
           /\ string_store' = r.string_store
           /\ list_store' = r.list_store

\* a slip of the loop: the actor answers from a copy of the stores and the
\* changes are lost with it
ActorRunOnCopy ==
    /\ actor = "running"
    /\ mailbox # <<>>
    /\ UNCHANGED <<server_info, replVars, codecVars, connVars, now>>
    /\ LET m == Head(mailbox)
           r == StorageActorRun(m.cmd, string_store, list_store, now)
       IN  /\ mailbox' = Tail(mailbox)
           /\ slot' = IF pc[m.from] = "dropped" THEN slot
                      ELSE [slot EXCEPT ![m.from] = <<"Ok", r.resp>>]
           /\ UNCHANGED <<actor, string_store, list_store>>

\* One iteration of the loop of StorageActor::run: the oldest message is
\* taken and executed and its reply handed over.  A panic drops the receiver
\* and with it every message still in the channel and its response_tx.  An
\* overflowing addition panics or wraps, as the build has it.
ActorRun ==
    /\ actor = "running"
    /\ mailbox # <<>>
    /\ UNCHANGED <<server_info, replVars, codecVars, connVars, now>>
    /\ LET m == Head(mailbox)
           r == StorageActorRun(m.cmd, string_store, list_store, now)
       IN  \E panics \in {r.panic} \cup (IF r.overflow THEN {TRUE, FALSE} ELSE {}) :
           IF panics
           THEN /\ actor' = "panicked"
                /\ mailbox' = <<>>
                /\ slot' = [c \in Conns |->
                              IF /\ \E i \in 1..Len(mailbox) : mailbox[i].from = c
                                 /\ pc[c] # "dropped"
                              THEN <<"Err">> ELSE slot[c]]
                /\ UNCHANGED <<string_store, list_store>>
           ELSE /\ mailbox' = Tail(mailbox)
                \* let _ = response_tx.send(response): the reply of a sender
                \* that is gone is thrown away
                /\ slot' = IF pc[m.from] = "dropped" THEN slot
                           ELSE [slot EXCEPT ![m.from] = <<"Ok", r.resp>>]
                /\ string_store' = r.string_store
                /\ list_store' = r.list_store
                /\ UNCHANGED actor

\* The future of StorageHandle::send is dropped at resp_rx.await, and with it
\* resp_rx and the connection task that awaits it (the runtime drops a
\* spawned task at its suspension point when it shuts down).
Cancel(c) ==
    /\ pc[c] \in {"await", "exec"}
    /\ pc' = [pc EXCEPT ![c] = "dropped"]
    /\ slot' = [slot EXCEPT ![c] = <<>>]
    /\ UNCHANGED <<server_info, replVars, codecVars, transaction_queue, queued_cmds, results, reply,
                   nsent, nrecv, discarded, mailbox, actor, string_store, list_store, now>>

\* the monotonic clock advances
Tick ==
    /\ now < MaxTime
    /\ now' = now + 1
    /\ UNCHANGED <<server_info, replVars, codecVars, connVars, actorVars>>

\* ---------------------------------------------------------- framed stream
\* A client encodes the frame f and writes it; the bytes travel as one
\* segment, or as two when cut is inside the encoding.
ClientWrites(f, cut) ==
    LET bytes == as_bytes(f)
        a == SubSeq(bytes, 1, cut)
        b == SubSeq(bytes, cut + 1, Len(bytes))
    IN  /\ Len(sent) < MaxSent
        /\ cut \in 0..(Len(bytes) - 1)
        /\ sent' = Append(sent, f)
        /\ wire' = wire \o (IF a = <<>> THEN << b >> ELSE << a, b >>)
        /\ UNCHANGED <<server_info, replVars, connVars, actorVars, now, src, outcome, yielded>>

\* the next segment arrives and is appended to the read buffer
Arrive ==
    /\ wire # <<>>
    /\ src' = src \o Head(wire)
    /\ wire' = Tail(wire)
    /\ UNCHANGED <<server_info, replVars, connVars, actorVars, now, sent, outcome, yielded>>

\* The Framed calls decode on its read buffer, as it does after every read
\* and after every frame; an Err or a panic ends the stream.
Decode ==
    /\ IF outcome = <<>> THEN TRUE ELSE outcome[1].r \in {"Some", "None"}
    /\ Len(yielded) < MaxYielded
    /\ LET res == decode(src) IN
       /\ src' = res.src
       /\ outcome' = << [x \in DOMAIN res \ {"src"} |-> res[x]] >>
       /\ yielded' = IF res.r = "Some" THEN Append(yielded, res.item) ELSE yielded
    /\ UNCHANGED <<server_info, replVars, connVars, actorVars, now, sent, wire>>

\* ------------------------------------------------------------------ inputs
\* a command as clients send it: an Array of BulkStrings
Request(words) == Array(BulkStrings(words))

k == <<"k">>
fPING == Request(<< <<"p","i","n","g">> >>)
fECHO == Request(<< nECHO, <<"a">> >>)
fSET == Request(<< nSET, k, <<"7">> >>)
fSETPX == Request(<< nSET, k, <<"a">>, <<"p","x">>, <<"1">> >>)
fGET == Request(<< nGET, k >>)
fINCR == Request(<< nINCR, k >>)
fRPUSH == Request(<< nRPUSH, k, <<"a">>, <<"b">> >>)
fLPUSH == Request(<< nLPUSH, k, <<"c">> >>)
fLPOP == Request(<< nLPOP, k >>)
fLRANGE == Request(<< nLRANGE, k, <<"0">>, <<"-","1">> >>)
fBLPOP == Request(<< nBLPOP, k, <<"0">> >>)
fMULTI == Request(<< nMULTI >>)
fEXEC == Request(<< nEXEC >>)
fDISCARD == Request(<< nDISCARD >>)
fINFO == Request(<< nINFO >>)
fINFOreplication == Request(<< nINFO, sReplication >>)
fINFOfoo == Request(<< nINFO, <<"f","o","o">> >>)
fINFOxfoo == Request(<< nINFO, <<"x">>, <<"f","o","o">> >>)
fREPLCONF == Request(<< nREPLCONF, <<"c","a","p","a">>, <<"p","s","y","n","c","2">> >>)
fPSYNC == Request(<< nPSYNC, <<"?">>, <<"-","1">> >>)

\* SET k to i64::MAX, to i64::MAX - 1, to i64::MAX + 1 and to -1000000000
fSETmax == Request(<< nSET, k, I64_MAX >>)
fSETnear == Request(<< nSET, k, DigitsPred(I64_MAX) >>)
fSETover == Request(<< nSET, k, I64_MIN >>)
fSETneg == Request(<< nSET, k, <<"-">> \o NatText(1000000000) >>)

\* SET with an expiration of no millisecond, and SET of a number with an
\* expiration
fSETPXzero == Request(<< nSET, k, <<"a">>, <<"p","x">>, <<"0">> >>)
fSETPXcount == Request(<< nSET, k, <<"7">>, <<"P","X">>, <<"1">> >>)

\* frames that fail the validation of Command::try_from
fEmpty == Array(<<>>)
fNotArray == SimpleString(nPING)
fUnknown == Request(<< <<"F","O","O">> >>)
fGETnoKey == Request(<< nGET >>)
fECHOsimple == Array(<< BulkString(nECHO), SimpleString(<<"a">>) >>)
fLRANGEword == Request(<< nLRANGE, k, <<"a">>, <<"1">> >>)
fPSYNCword == Request(<< nPSYNC, <<"?">>, <<"x">> >>)

\* the well-formed commands the client sends
CommandFrames ==
    {fPING, fECHO, fSET, fSETPX, fGET, fINCR, fRPUSH, fLPUSH, fLPOP, fLRANGE,
     fBLPOP, fMULTI, fEXEC, fDISCARD, fINFO, fINFOreplication, fINFOfoo,
     fREPLCONF, fPSYNC}

\* frames that Command::try_from does not turn into a command
InvalidFrames ==
    {fEmpty, fNotArray, fUnknown, fGETnoKey, fECHOsimple, fLRANGEword,
     fINFOxfoo, fPSYNCword}

Frames == CommandFrames \cup InvalidFrames

\* what each of two concurrent clients sends
FramesTwo == {fSET, fGET, fINCR, fBLPOP, fMULTI, fEXEC}

\* ----------------------------------------------------------- specification
\* the client of connection c sends resp, unless it has sent max frames, and
\* the connection handles it
Feed(c, resp, max) == nrecv[c] < max /\ Handle(c, resp)

\* one client: connection 1 is fed, connection 2 stays in framed.next()
Next ==
    \/ \E resp \in Frames : Feed(1, resp, MaxFrames)
    \/ Resume(1)
    \/ ActorRun
    \/ Tick

Spec == Init /\ [][Next]_vars

\* one client that sends the transaction commands and a few others, with
\* no expiring key and so no need of the clock
TxFrames ==
    {fMULTI, fEXEC, fDISCARD, fPING, fSET, fINCR, fGET, fBLPOP, fUnknown,
     fPSYNCword}

NextTx ==
    \/ \E resp \in TxFrames : Feed(1, resp, MaxFramesTx)
    \/ Resume(1)
    \/ ActorRun

SpecTx == Init /\ [][NextTx]_vars

\* two clients
NextTwo ==
    \/ \E c \in Conns : \E resp \in FramesTwo : Feed(c, resp, MaxFramesTwo)
    \/ \E c \in Conns : Resume(c)
    \/ ActorRun
    \/ Tick

SpecTwo == Init /\ [][NextTwo]_vars

\* two clients whose storage commands meet in the mailbox: connection 1 can
\* run a transaction, connection 2 sends single commands, and either task
\* can be dropped while it waits for the storage actor
PairFrames == {fMULTI, fEXEC, fINCR, fSET, fGET}
PeerFrames == {fINCR, fSET, fGET}

NextPair ==
    \/ \E resp \in PairFrames : Feed(1, resp, MaxFramesPair)
    \/ \E resp \in PeerFrames : Feed(2, resp, MaxFramesPeer)
    \/ \E c \in Conns : Resume(c)
    \/ \E c \in Conns : Cancel(c)
    \/ ActorRun

SpecPair == Init /\ [][NextPair]_vars

\* one client that counts at the ends of the i64 range and on data that is
\* no number
WideFrames ==
    {fSETmax, fSETnear, fSETover, fSETneg, fSETPX, fSETPXzero, fSETPXcount,
     fINCR, fGET}

NextWide ==
    \/ \E resp \in WideFrames : Feed(1, resp, MaxFramesWide)
    \/ Resume(1)
    \/ ActorRun
    \/ Tick

SpecWide == Init /\ [][NextWide]_vars

\* the frames a client encodes for the decoder: one of every kind, an empty
\* bulk string, and arrays, empty, of two elements and nested
CodecFrames ==
    {SimpleString(<<"O","K">>), SimpleError(<<"E","R","R">>), Integer(7),
     Integer(0 - 1), BulkString(<<"a","b">>), BulkString(<<>>), NullBulkString,
     Array(<<>>), fGET,
     Array(<< Array(<< BulkString(<<"a">>) >>), SimpleString(<<"b">>) >>),
     Array(<< Integer(7) >>), Array(<< NullBulkString, BulkString(<<"a">>) >>)}

\* a client writes frames, the segments arrive and the Framed decodes
NextCodec ==
    \/ \E f \in CodecFrames : \E cut \in 0..MaxCut : ClientWrites(f, cut)
    \/ Arrive
    \/ Decode

SpecCodec == Init /\ [][NextCodec]_vars

\* A client writes bytes that are the encoding of no frame, in one segment
\* or in two, on a connection on which nothing was written before.
ClientWritesBytes(bytes, cut) ==
    LET a == SubSeq(bytes, 1, cut)
        b == SubSeq(bytes, cut + 1, Len(bytes))
    IN  /\ sent = <<>>
        /\ wire = <<>>
        /\ src = <<>>
        /\ outcome = <<>>
        /\ cut \in 0..(Len(bytes) - 1)
        /\ wire' = (IF a = <<>> THEN << b >> ELSE << a, b >>)
        /\ UNCHANGED <<server_info, replVars, connVars, actorVars, now, sent, src,
                       outcome, yielded>>

\* headers with a negative length or count, alone, followed by data and as
\* the element of an array
Malformed ==
    {<<"$", "-", "2">> \o CRLF,
     <<"$", "-", "2">> \o CRLF \o <<"a", "b">> \o CRLF,
     <<"$", "-", "9", "9">> \o CRLF,
     <<"*", "-", "1">> \o CRLF,
     <<"*", "-", "2">> \o CRLF,
     <<"*", "-", "1">> \o CRLF \o <<"$", "1">> \o CRLF \o <<"a">> \o CRLF,
     <<"*", "1">> \o CRLF \o <<"$", "-", "2">> \o CRLF,
     <<"*", "1">> \o CRLF \o <<"*", "-", "1">> \o CRLF}

NextMalformed ==
    \/ \E bytes \in Malformed : \E cut \in 0..MaxCut : ClientWritesBytes(bytes, cut)
    \/ Arrive
    \/ Decode

SpecMalformed == Init /\ [][NextMalformed]_vars

\* frames that carry a line break into a diagnostic: an unknown command whose
\* name holds CR LF, and an LRANGE whose key is a simple string
fUnknownCRLF == Request(<< <<"F", "\r", "\n", "O">> >>)
fLRANGEsimple ==
    Array(<< BulkString(nLRANGE), SimpleString(k), BulkString(<<"0">>),
             BulkString(<<"1">>) >>)

DiagnosticFrames ==
    InvalidFrames \cup {fUnknownCRLF, fLRANGEsimple, fPING, fSET, fGET, fMULTI, fEXEC}

\* one client that sends frames that fail the validation, among others
NextDiagnostic ==
    \/ \E resp \in DiagnosticFrames : Feed(1, resp, MaxFramesDiagnostic)
    \/ Resume(1)
    \/ ActorRun

SpecDiagnostic == Init /\ [][NextDiagnostic]_vars

\* ------------------------------------------------------------- replication
\* RedisServer::send_replconf: the message it writes
send_replconf(key, value) ==
    Array(<< BulkString(<<"REPLCONF">>), BulkString(key), BulkString(value) >>)

\* the four messages of perform_replication_handshake
HandshakePing == Array(<< BulkString(<<"PING">>) >>)
HandshakePort == send_replconf(<<"listening-port">>, <<"6", "3", "8", "0">>)
HandshakeCapa == send_replconf(<<"capa">>, <<"psync2">>)
HandshakePsync ==
    Array(<< BulkString(<<"PSYNC">>), BulkString(<<"?">>), BulkString(<<"-1">>) >>)

\* TcpStream::connect succeeds and the PING is written
HandshakeConnect ==
    /\ handshake = "connect"
    /\ handshake' = "ping"
    /\ to_master' = << HandshakePing >>
    /\ UNCHANGED <<server_info, connVars, actorVars, now, codecVars, config>>

\* framed.next() on the connection to the master returns: with a frame, and
\* the next message is written (after the reply to PSYNC, run enters the
\* accept loop), or with a decode error, and run returns Err
HandshakeNext ==
    /\ handshake \in {"ping", "port", "capa", "psync"}
    /\ LET res == decode(src) IN
        /\ res.r # "None"
        /\ src' = res.src
        /\ IF res.r = "Some"
           THEN CASE handshake = "ping" ->
                        /\ to_master' = Append(to_master, HandshakePort)
                        /\ handshake' = "port"
                  [] handshake = "port" ->
                        /\ to_master' = Append(to_master, HandshakeCapa)
                        /\ handshake' = "capa"
                  [] handshake = "capa" ->
                        /\ to_master' = Append(to_master, HandshakePsync)
                        /\ handshake' = "psync"
                  [] handshake = "psync" ->
                        /\ to_master' = to_master
                        /\ handshake' = "accept"
           ELSE /\ handshake' = IF res.r = "Err" THEN "failed" ELSE "panicked"
                /\ to_master' = to_master
    /\ UNCHANGED <<server_info, connVars, actorVars, now, sent, wire, outcome,
                   yielded, config>>

\* the connect, a write or a read on the connection to the master fails, or
\* the master closes it: `?` returns the error from run
HandshakeFails ==
    /\ handshake \in {"connect", "ping", "port", "capa", "psync"}
    /\ handshake' = "failed"
    /\ UNCHANGED <<server_info, connVars, actorVars, now, codecVars, config,
                   to_master>>

\* the master answers a message it has received and not yet answered
MasterWrites(f) ==
    /\ handshake \in {"ping", "port", "capa", "psync"}
    /\ Len(sent) < Len(to_master)
    /\ sent' = Append(sent, f)
    /\ wire' = Append(wire, as_bytes(f))
    /\ UNCHANGED <<server_info, connVars, actorVars, now, src, outcome, yielded,
                   replVars>>

\* the ports a replica is started on, and the address of its master
Ports == {6379, 6380}
MasterAddr == <<"localhost:6379">>

\* what a master answers: the replies of a Redis master, an error, a bulk
\* string and the null bulk string
MasterReplies ==
    {SimpleString(<<"PONG">>), SimpleString(<<"OK">>),
     SimpleString(<<"FULLRESYNC ">> \o DEFAULT_MASTER_ID \o <<" 0">>),
     SimpleError(<<"ERR">>), BulkString(<<"a">>), NullBulkString}

InitReplica ==
    \E port \in Ports : ServerNew([port |-> port, replica_of |-> << MasterAddr >>])

\* what a client of the replica sends
ReplicaFrames == {fPING, fINFO, fSET, fGET}

\* a replica: the handshake with its master, then one client
NextReplica ==
    \/ HandshakeConnect
    \/ \E f \in MasterReplies : MasterWrites(f)
    \/ Arrive
    \/ HandshakeNext
    \/ HandshakeFails
    \/ \E resp \in ReplicaFrames : Feed(1, resp, MaxFramesReplica)
    \/ Resume(1)
    \/ ActorRun

SpecReplica == InitReplica /\ [][NextReplica]_vars

\* the list commands of one client on the key k, and a push on another key
j == <<"j">>
fLLEN == Request(<< nLLEN, k >>)
fRPUSHc == Request(<< nRPUSH, k, <<"c">> >>)
fRPUSHj == Request(<< nRPUSH, j, <<"x">> >>)
fLPUSHde == Request(<< nLPUSH, k, <<"d">>, <<"e">> >>)
fLPOPcount(n) == Request(<< nLPOP, k, I64ToString(n) >>)
fLRANGEof(start, stop) ==
    Request(<< nLRANGE, k, I64ToString(start), I64ToString(stop) >>)

ListFrames == {fRPUSH, fRPUSHj, fLPUSH, fLPUSHde, fLPOP, fLLEN, fLRANGE}

\* one client that pushes to the two ends of a list, pops from its head,
\* with a count and without, and reads it
NextList ==
    \/ \E resp \in ListFrames : Feed(1, resp, MaxFramesList)
    \/ \E n \in (0 - 1)..MaxCount : Feed(1, fLPOPcount(n), MaxFramesList)
    \/ Resume(1)
    \/ ActorRun

SpecList == Init /\ [][NextList]_vars

RangeFrames == {fRPUSH, fRPUSHc, fLPOP}

\* one client that builds a list and reads every range of it
NextRange ==
    \/ \E resp \in RangeFrames : Feed(1, resp, MaxFramesRange)
    \/ \E start, stop \in (0 - MaxIndex)..MaxIndex :
            Feed(1, fLRANGEof(start, stop), MaxFramesRange)
    \/ Resume(1)
    \/ ActorRun

SpecRange == Init /\ [][NextRange]_vars

\* ------------------------------------------------- queued commands of every kind
\* the commands handle_regular_command answers itself, as it answers them
RegularReply(cmd) ==
    CASE cmd.name = "PING" -> SimpleString(<<"PONG">>)
      [] cmd.name = "ECHO" -> BulkString(cmd.msg)
      [] cmd.name = "INFO" -> RetrieveInfo
      [] cmd.name = "REPLCONF" -> SimpleString(<<"OK">>)
      [] cmd.name = "PSYNC" ->
            SimpleString(<<"FULLRESYNC ">> \o DEFAULT_MASTER_ID
                         \o <<" ">> \o I64ToString(0))

\* the commands StorageActor::run has an arm for
StorageCommands ==
    {"SET", "GET", "LLEN", "LPUSH", "RPUSH", "LRANGE", "LPOP", "BLPOP", "INCR"}

\* one client that queues commands the connection answers itself and
\* commands of the storage actor
QueueFrames ==
    {fMULTI, fEXEC, fPING, fECHO, fINFO, fREPLCONF, fPSYNC, fSET, fGET}

NextQueue ==
    \/ \E resp \in QueueFrames : Feed(1, resp, MaxFramesQueue)
    \/ Resume(1)
    \/ ActorRun

SpecQueue == Init /\ [][NextQueue]_vars

\* ----------------------------------------------------- a writer and a reader
\* what connection 1 sends, over and over: every write of the key k
WriterScript == << fSET, fINCR, fRPUSH, fLPUSH, fLPOP >>
WriterFrame(n) == WriterScript[((n - 1) % Len(WriterScript)) + 1]

\* what connection 2 sends: the reads of the key k
ReaderFrames == {fGET, fLLEN, fLRANGE}

NextSeen ==
    \/ /\ Feed(1, WriterFrame(nrecv[1] + 1), MaxFramesWriter)
    \/ \E resp \in ReaderFrames : Feed(2, resp, MaxFramesReader)
    \/ \E c \in Conns : Resume(c)
    \/ ActorRun

SpecSeen == Init /\ [][NextSeen]_vars

\* ------------------------------------------- a transaction and a bystander
\* connection 1 opens, fills, runs and drops transactions while connection 2
\* sends one plain command
PrivateFrames == {fMULTI, fEXEC, fDISCARD, fINCR, fGET}

NextPrivate ==
    \/ \E resp \in PrivateFrames : Feed(1, resp, MaxFramesPair)
    \/ \E resp \in PeerFrames : Feed(2, resp, MaxFramesPeer)
    \/ \E c \in Conns : Resume(c)
    \/ ActorRun

SpecPrivate == Init /\ [][NextPrivate]_vars

\* ------------------------------------------------------ fair scheduling
\* connection 1 sends storage commands directly and from EXEC, connection 2
\* sends one plain command at any moment
FairFrames == {fMULTI, fEXEC, fSET, fGET, fBLPOP}

NextFair ==
    \/ \E resp \in FairFrames : Feed(1, resp, MaxFramesPair)
    \/ \E resp \in PeerFrames : Feed(2, resp, MaxFramesPeer)
    \/ \E c \in Conns : Resume(c)
    \/ ActorRun

\* the runtime polls every task that is ready: a connection task whose
\* reply has arrived is resumed, and the storage actor takes the next
\* message while the channel holds one.  What the clients send is up to
\* them.
Fair ==
    /\ \A c \in Conns : WF_vars(Resume(c))
    /\ WF_vars(ActorRun)

SpecFair == Init /\ [][NextFair]_vars /\ Fair

\* ------------------------------------------------------------------ claims
WrongType ==
    SimpleError(<<"WRONGTYPE Operation against a key holding the wrong kind of value">>)

\* the step leaves the two stores and the mailbox as they are
StorageUntouched ==
    /\ mailbox' = mailbox
    /\ string_store' = string_store
    /\ list_store' = list_store

\* C1: inside MULTI, a MULTI is answered with the error "ERR MULTI calls can
\* not be nested" and adds nothing to the transaction queue.
C1_NestedMultiIsRefused ==
    [][ (InMulti(1) /\ Handle(1, fMULTI)) =>
            /\ reply'[1] = << SimpleError(<<"ERR MULTI calls can not be nested">>) >>
            /\ transaction_queue'[1] = transaction_queue[1] ]_vars

\* C2: inside MULTI, a parsed command other than EXEC, DISCARD and MULTI is
\* appended to the tail of the queue and answered QUEUED, and nothing of it
\* reaches the mailbox or the stores: a connection inside MULTI has no
\* message in the mailbox and no reply pending.
C2_QueuedNotExecuted ==
    [][ /\ \A resp \in Frames :
            LET r == TryFrom(resp) IN
            (/\ InMulti(1)
             /\ Handle(1, resp)
             /\ r.r = "Ok"
             /\ r.cmd.name \notin {"EXEC", "DISCARD", "MULTI"}) =>
                /\ transaction_queue'[1] =
                     << Append(transaction_queue[1][1],
                               [cmd |-> r.cmd, at |-> nrecv[1] + 1]) >>
                /\ reply'[1] = << SimpleString(<<"QUEUED">>) >>
                /\ pc'[1] = "next"
                /\ StorageUntouched
        /\ InMulti(1)' =>
                /\ pc'[1] \notin {"await", "exec"}
                /\ slot'[1] = <<>>
                /\ \A i \in 1..Len(mailbox') : mailbox'[i].from # 1 ]_vars

\* C2: two storage commands are queued and the stores are still empty
C2_Witness ==
    /\ InMulti(1)
    /\ Len(transaction_queue[1][1]) = 2
    /\ transaction_queue[1][1][1].cmd.name = "SET"
    /\ transaction_queue[1][1][2].cmd.name = "RPUSH"
    /\ reply[1] = << SimpleString(<<"QUEUED">>) >>
    /\ string_store = EmptyMap
    /\ list_store = EmptyMap

\* the run of a queue of n commands is over with an Array of n replies, or it
\* waits for the storage actor with n replies collected, awaited and to come
ExecRuns(n) ==
    \/ /\ pc'[1] = "next"
       /\ reply'[1] # <<>>
       /\ reply'[1][1].t = "Array"
       /\ Len(reply'[1][1].a) = n
    \/ /\ pc'[1] = "exec"
       /\ Len(results'[1]) + 1 + Len(queued_cmds'[1]) = n

\* C3: EXEC over a queue of n commands ends with an Array of n replies: the
\* commands are run from the head of the queue, one reply is collected for
\* each, and no step of the run ends the connection.
C3_ExecAnswersEveryQueuedCommand ==
    [][ /\ (InMulti(1) /\ Handle(1, fEXEC)) => ExecRuns(Len(transaction_queue[1][1]))
        /\ (pc[1] = "exec" /\ Resume(1)) =>
                ExecRuns(Len(results[1]) + 1 + Len(queued_cmds[1])) ]_vars

\* C4: DISCARD inside MULTI is answered OK, ends MULTI and touches neither the
\* mailbox nor the stores; and every command the storage actor ever runs, or
\* that waits in the mailbox, arrived after the last DISCARD of its
\* connection: no command dropped by a DISCARD is run, also not by a later EXEC.
C4_DiscardDropsTheQueue ==
    [][ /\ (InMulti(1) /\ Handle(1, fDISCARD)) =>
                /\ reply'[1] = << SimpleString(<<"OK">>) >>
                /\ ~InMulti(1)'
                /\ pc'[1] = "next"
                /\ StorageUntouched
        /\ (mailbox # <<>> /\ ActorRun) =>
                Head(mailbox).at > discarded[Head(mailbox).from]
        /\ \A i \in 1..Len(mailbox') :
                mailbox'[i].at > discarded'[mailbox'[i].from] ]_vars

\* C4: MULTI, INCR, DISCARD, MULTI, INCR, EXEC: the EXEC after the DISCARD has
\* run one INCR only
C4_Witness ==
    /\ discarded[1] = 3
    /\ nrecv[1] = 6
    /\ pc[1] = "next"
    /\ reply[1] = << Array(<< Integer(1) >>) >>
    /\ k \in DOMAIN string_store
    /\ string_store[k].data = <<"1">>

\* outside MULTI the frame is answered with the error msg and changes nothing
RefusedOutsideMulti(resp, msg) ==
    (~InMulti(1) /\ Handle(1, resp)) =>
        /\ reply'[1] = << SimpleError(msg) >>
        /\ pc'[1] = "next"
        /\ ~InMulti(1)'
        /\ StorageUntouched

\* C5: EXEC inside MULTI ends MULTI, whatever the queue holds, and the
\* connection is still outside MULTI when the run of the queue is over;
\* outside MULTI, DISCARD and EXEC are answered with their "without MULTI"
\* errors and change neither the connection state nor the stores.
C5_ExecEndsMulti ==
    [][ /\ (InMulti(1) /\ Handle(1, fEXEC)) => ~InMulti(1)'
        /\ (pc[1] = "exec" /\ Resume(1)) => ~InMulti(1)'
        /\ RefusedOutsideMulti(fDISCARD, <<"ERR DISCARD without MULTI">>)
        /\ RefusedOutsideMulti(fEXEC, <<"ERR EXEC without MULTI">>) ]_vars

\* C5: EXEC has run a queue of one SET and the connection waits for the next
\* frame, outside MULTI
C5_Witness ==
    /\ reply[1] = << Array(<< SimpleString(<<"OK">>) >>) >>
    /\ pc[1] = "next"
    /\ ~InMulti(1)
    /\ nrecv[1] = 3

\* C6: inside MULTI, a frame that does not parse leaves the queue as it is
\* and the connection inside MULTI, waiting for the next frame.
C6_ParseFailureKeepsTransaction ==
    [][ \A resp \in TxFrames :
            (InMulti(1) /\ Handle(1, resp) /\ TryFrom(resp).r # "Ok") =>
                /\ transaction_queue' = transaction_queue
                /\ pc'[1] = "next" ]_vars

\* C7: a frame that fails the validation is answered with a SimpleError,
\* changes neither the stores nor the transaction state, and the connection
\* goes on to the next frame.
C7_InvalidFrameIsAnswered ==
    [][ \A resp \in InvalidFrames :
            Handle(1, resp) =>
                /\ pc'[1] = "next"
                /\ reply'[1] # <<>>
                /\ reply'[1][1].t = "SimpleError"
                /\ transaction_queue' = transaction_queue
                /\ StorageUntouched ]_vars

\* C8: the storage actor answers a BLPOP with a SimpleError and keeps running.
C8_BlpopIsRefused ==
    [][ (mailbox # <<>> /\ Head(mailbox).cmd.name = "BLPOP" /\ ActorRun) =>
            /\ actor' = "running"
            /\ slot'[Head(mailbox).from][1] = "Ok"
            /\ slot'[Head(mailbox).from][2].t = "SimpleError" ]_vars

\* C9: INFO with a section other than replication is answered with a
\* SimpleError.
C9_InfoUnknownSection ==
    [][ (~InMulti(1) /\ Handle(1, fINFOfoo)) =>
            /\ reply'[1] # <<>>
            /\ reply'[1][1].t = "SimpleError" ]_vars

\* the actor answers the head of the mailbox with WRONGTYPE, stores unchanged
RefusedWrongType ==
    /\ slot'[Head(mailbox).from] = <<"Ok", WrongType>>
    /\ string_store' = string_store
    /\ list_store' = list_store

\* C10: GET of a key that holds a list, and RPUSH on a key that holds a live
\* string, are answered with the WRONGTYPE error and change no store.
C10_WrongType ==
    [][ /\ (/\ mailbox # <<>>
            /\ ActorRun
            /\ Head(mailbox).cmd.name = "GET"
            /\ Head(mailbox).cmd.key \in DOMAIN list_store) => RefusedWrongType
        /\ (/\ mailbox # <<>>
            /\ ActorRun
            /\ Head(mailbox).cmd.name = "RPUSH"
            /\ Head(mailbox).cmd.key \in DOMAIN string_store
            /\ ~IsExpired(string_store[Head(mailbox).cmd.key], now)) =>
                RefusedWrongType ]_vars

\* the positions of the mailbox that hold a message of connection c
Pending(c) == {i \in 1..Len(mailbox) : mailbox[i].from = c}

\* the step executes the oldest message of the mailbox: the stores take its
\* effect and, in the same step, its reply is handed to the sender
HeadRun ==
    /\ mailbox # <<>>
    /\ LET m == Head(mailbox)
           r == StorageActorRun(m.cmd, string_store, list_store, now)
       IN  /\ mailbox' = Tail(mailbox)
           /\ string_store' = r.string_store
           /\ list_store' = r.list_store
           /\ slot' = IF pc[m.from] = "dropped" THEN slot
                      ELSE [slot EXCEPT ![m.from] = <<"Ok", r.resp>>]

\* the step puts one message of connection c behind all others; c has no
\* other message in the mailbox and has taken the replies of its earlier ones
Sent(c) ==
    /\ Len(mailbox') = Len(mailbox) + 1
    /\ SubSeq(mailbox', 1, Len(mailbox)) = mailbox
    /\ mailbox'[Len(mailbox')].from = c
    /\ Pending(c) = {}
    /\ slot'[c] = <<>>

\* C11: the mailbox is first in, first out and the storage actor executes one
\* message per step, the oldest: the mailbox changes only by a send at its
\* tail or by the execution of its head; the stores change, and a reply
\* appears, only in the step that executes the head; and a connection has at
\* most one message in the mailbox, sent after it took the replies of all its
\* earlier commands, so that the command runs on stores that hold their effects.
C11_MailboxInOrder ==
    [][ /\ mailbox' # mailbox => (HeadRun \/ \E c \in Conns : Sent(c))
        /\ (\/ string_store' # string_store
            \/ list_store' # list_store
            \/ \E c \in Conns : slot'[c] # <<>> /\ slot'[c] # slot[c]) => HeadRun
        /\ \A c \in Conns :
              Pending(c)' # {} =>
                  /\ Cardinality(Pending(c)') = 1
                  /\ pc'[c] \in {"await", "exec", "dropped"}
                  /\ slot'[c] = <<>> ]_vars

\* C11: connection 1 alone sent SET k 7, got OK, sent GET k and got 7, while
\* connection 2 sent nothing
C11_Witness ==
    /\ nrecv[1] = 2
    /\ nrecv[2] = 0
    /\ pc[1] = "next"
    /\ reply[1] = << BulkString(<<"7">>) >>

\* C12: a message whose sender is gone is executed like any other: the step
\* that takes it from the head of the mailbox gives the stores its full
\* effect, fills no reply slot and leaves the storage actor running; and the
\* step in which a sender goes away takes nothing out of the mailbox and
\* changes no store.
C12_OrphanIsExecuted ==
    [][ /\ (/\ mailbox # <<>>
            /\ pc[Head(mailbox).from] = "dropped"
            /\ mailbox' = Tail(mailbox)) =>
                LET m == Head(mailbox)
                    r == StorageActorRun(m.cmd, string_store, list_store, now)
                IN  /\ string_store' = r.string_store
                    /\ list_store' = r.list_store
                    /\ slot' = slot
                    /\ actor' = "running"
        /\ (\E c \in Conns : pc[c] # "dropped" /\ pc'[c] = "dropped") =>
                /\ mailbox' = mailbox
                /\ string_store' = string_store
                /\ list_store' = list_store
                /\ actor' = actor ]_vars

\* C12: connection 1 sent INCR k and went away without its reply; connection
\* 2 then read k and got 1
C12_Witness ==
    /\ pc[1] = "dropped"
    /\ nrecv[1] = 1
    /\ slot[1] = <<>>
    /\ nrecv[2] = 1
    /\ reply[2] = << BulkString(<<"1">>) >>

\* C13: EXEC hands its commands to the storage actor one by one: when the run
\* of a transaction takes the reply of one command, its next command goes
\* behind every message other connections have put into the mailbox in the
\* meantime, and no store changes in that step; and a step that changes a
\* store executes exactly one message.  So a command of another connection
\* can run between two commands of one EXEC (the witness), while no command
\* is run in parts.
C13_ExecIsNotAtomic ==
    [][ /\ (pc[1] = "exec" /\ slot[1] # <<>> /\ slot'[1] = <<>> /\ pc'[1] = "exec") =>
                /\ queued_cmds[1] # <<>>
                /\ mailbox' = Append(mailbox, [cmd |-> Head(queued_cmds[1]).cmd,
                                               from |-> 1,
                                               at |-> Head(queued_cmds[1]).at])
                /\ queued_cmds'[1] = Tail(queued_cmds[1])
                /\ string_store' = string_store
                /\ list_store' = list_store
        /\ (string_store' # string_store \/ list_store' # list_store) =>
                Len(mailbox') = Len(mailbox) - 1 ]_vars

\* C13: connection 1 ran MULTI, INCR k, INCR k, EXEC and got 1 and 3:
\* the INCR k of connection 2, answered 2, ran between the two
C13_Witness ==
    /\ reply[1] = << Array(<< Integer(1), Integer(3) >>) >>
    /\ reply[2] = << Integer(2) >>
    /\ mailbox = <<>>

\* the number a key counts: 0 when it is absent
Counted(key) ==
    IF key \in DOMAIN string_store THEN ParseI64(string_store[key].data)[1] ELSE 0

\* C14: an INCR the storage actor executes on a key that is absent, or that
\* holds the live numeral of n, leaves the key holding the numeral of n + 1
\* without expiration change, touches no other key and is answered n + 1 (n
\* is 0 for the absent key); a GET of a live key is answered with the data the
\* key holds; and the string store changes in no step but the execution of a
\* SET or an INCR.  So N INCRs of a key that was absent count to N, whoever
\* sent them and in whatever order they ran.
C14_NoIncrementIsLost ==
    [][ /\ (/\ mailbox # <<>>
            /\ mailbox' = Tail(mailbox)
            /\ Head(mailbox).cmd.name = "INCR"
            /\ \/ Head(mailbox).cmd.key \notin DOMAIN string_store
               \/ /\ ~IsExpired(string_store[Head(mailbox).cmd.key], now)
                  /\ ParseI64(string_store[Head(mailbox).cmd.key].data) # <<>>) =>
                LET m == Head(mailbox)
                    n == Counted(m.cmd.key)
                IN  /\ DOMAIN string_store' = DOMAIN string_store \cup {m.cmd.key}
                    /\ string_store'[m.cmd.key].data = I64ToString(n + 1)
                    /\ string_store'[m.cmd.key].expires_at =
                          IF m.cmd.key \in DOMAIN string_store
                          THEN string_store[m.cmd.key].expires_at ELSE <<>>
                    /\ \A x \in DOMAIN string_store \ {m.cmd.key} :
                          string_store'[x] = string_store[x]
                    /\ pc[m.from] # "dropped" => slot'[m.from] = <<"Ok", Integer(n + 1)>>
        /\ (/\ mailbox # <<>>
            /\ mailbox' = Tail(mailbox)
            /\ Head(mailbox).cmd.name = "GET"
            /\ Head(mailbox).cmd.key \in DOMAIN string_store
            /\ ~IsExpired(string_store[Head(mailbox).cmd.key], now)) =>
                /\ string_store' = string_store
                /\ pc[Head(mailbox).from] # "dropped" =>
                      slot'[Head(mailbox).from] =
                          <<"Ok", BulkString(string_store[Head(mailbox).cmd.key].data)>>
        /\ string_store' # string_store =>
                /\ mailbox # <<>>
                /\ mailbox' = Tail(mailbox)
                /\ Head(mailbox).cmd.name \in {"SET", "INCR"} ]_vars

\* C14: the INCR k of connection 2 was answered 1, and MULTI, INCR k, GET k,
\* EXEC of connection 1 was answered 2 and "2"
C14_Witness ==
    /\ reply[2] = << Integer(1) >>
    /\ reply[1] = << Array(<< Integer(2), BulkString(<<"2">>) >>) >>
    /\ string_store[k].data = <<"2">>

\* C15: an INCR the storage actor executes on a key whose entry has expired
\* is answered Integer 1 and leaves the key holding "1" without expiration.
C15_IncrOfExpiredKey ==
    [][ (/\ mailbox # <<>>
         /\ mailbox' = Tail(mailbox)
         /\ Head(mailbox).cmd.name = "INCR"
         /\ Head(mailbox).cmd.key \in DOMAIN string_store
         /\ IsExpired(string_store[Head(mailbox).cmd.key], now)) =>
            /\ slot'[Head(mailbox).from] = <<"Ok", Integer(1)>>
            /\ Head(mailbox).cmd.key \in DOMAIN string_store'
            /\ string_store'[Head(mailbox).cmd.key] =
                  [data |-> <<"1">>, expires_at |-> <<>>] ]_vars

NotAnInteger == SimpleError(<<"ERR value is not an integer or out of range">>)

\* C16: an INCR the storage actor executes on a live key that holds i64::MAX
\* is answered "ERR value is not an integer or out of range", leaves the
\* store as it is and leaves the storage actor running.
C16_IncrOfMaxIsRefused ==
    [][ (/\ mailbox # <<>>
         /\ ActorRun
         /\ Head(mailbox).cmd.name = "INCR"
         /\ Head(mailbox).cmd.key \in DOMAIN string_store
         /\ ~IsExpired(string_store[Head(mailbox).cmd.key], now)
         /\ string_store[Head(mailbox).cmd.key].data = I64_MAX) =>
            /\ actor' = "running"
            /\ slot'[Head(mailbox).from] = <<"Ok", NotAnInteger>>
            /\ string_store' = string_store ]_vars

\* C17: an INCR the storage actor executes on a live key whose data is no i64
\* numeral (a word, or digits beyond the i64 range) is answered "ERR value is
\* not an integer or out of range" and leaves the store, and so the data and
\* the expiration of the key, as it is.
C17_IncrOfNonInteger ==
    [][ (/\ mailbox # <<>>
         /\ mailbox' = Tail(mailbox)
         /\ Head(mailbox).cmd.name = "INCR"
         /\ Head(mailbox).cmd.key \in DOMAIN string_store
         /\ ~IsExpired(string_store[Head(mailbox).cmd.key], now)
         /\ ParseI64(string_store[Head(mailbox).cmd.key].data) = <<>>) =>
            /\ slot'[Head(mailbox).from] = <<"Ok", NotAnInteger>>
            /\ string_store' = string_store
            /\ list_store' = list_store
            /\ actor' = "running" ]_vars

\* C17: SET k 9223372036854775808, INCR k, GET k: the GET after the refused
\* INCR is answered with the data as it was set
C17_Witness ==
    /\ nrecv[1] = 3
    /\ pc[1] = "next"
    /\ reply[1] = << BulkString(I64_MIN) >>
    /\ string_store[k] = [data |-> I64_MIN, expires_at |-> <<>>]

\* the storage actor executes the head of the mailbox, a command named name
Runs(name) ==
    /\ mailbox # <<>>
    /\ mailbox' = Tail(mailbox)
    /\ actor' = "running"
    /\ Head(mailbox).cmd.name = name

\* the reply the step hands to the sender of the head of the mailbox
Answer == slot'[Head(mailbox).from]

\* C18: a SET with PX t executed at the instant now lets the key expire at
\* now + t.  A GET executed at an instant up to the expiration is answered
\* with the data and changes nothing; a GET executed later is answered
\* NullBulkString and removes the entry; a GET of an absent key is answered
\* NullBulkString; and a key comes into the store by no step but a SET or an
\* INCR of that key.
C18_ExpirationIsMonotonic ==
    [][ /\ (Runs("SET") /\ Head(mailbox).cmd.px # <<>>) =>
                string_store'[Head(mailbox).cmd.key].expires_at
                    = << now + Head(mailbox).cmd.px[1] >>
        /\ (Runs("GET") /\ Head(mailbox).cmd.key \in DOMAIN string_store) =>
                LET key == Head(mailbox).cmd.key
                    entry == string_store[key]
                IN  IF entry.expires_at = <<>> \/ now <= entry.expires_at[1]
                    THEN /\ Answer = <<"Ok", BulkString(entry.data)>>
                         /\ string_store' = string_store
                    ELSE /\ Answer = <<"Ok", NullBulkString>>
                         /\ string_store' = MapRemove(string_store, key)
        /\ (Runs("GET") /\ Head(mailbox).cmd.key \notin DOMAIN string_store) =>
                /\ Answer = <<"Ok", NullBulkString>>
                /\ string_store' = string_store
        /\ \A key \in DOMAIN string_store' \ DOMAIN string_store :
                /\ Runs("SET") \/ Runs("INCR")
                /\ Head(mailbox).cmd.key = key ]_vars

\* C18: SET k a PX 1 at the instant 0, a GET k before the instant 2, answered
\* a, and a GET k at the instant 2, answered NullBulkString, the key gone
C18_Witness ==
    /\ nrecv[1] = 3
    /\ pc[1] = "await"
    /\ now = 2
    /\ reply[1] = << BulkString(<<"a">>) >>
    /\ slot[1] = <<"Ok", NullBulkString>>
    /\ string_store = EmptyMap

\* C19: a SET the storage actor executes is answered OK and leaves the key
\* holding the new data, whatever it held before: without PX the key has no
\* expiration, with PX t it expires at the instant of the execution plus t;
\* no other key changes.
C19_SetOverwrites ==
    [][ Runs("SET") =>
            LET cmd == Head(mailbox).cmd IN
            /\ Answer = <<"Ok", SimpleString(<<"OK">>)>>
            /\ DOMAIN string_store' = DOMAIN string_store \cup {cmd.key}
            /\ string_store'[cmd.key] =
                  [data |-> cmd.val,
                   expires_at |-> IF cmd.px = <<>> THEN <<>>
                                  ELSE << now + cmd.px[1] >>]
            /\ \A x \in DOMAIN string_store \ {cmd.key} :
                  string_store'[x] = string_store[x]
            /\ list_store' = list_store ]_vars

\* C19: SET k a PX 1 and SET k 7 at the instant 0, GET k at the instant 2:
\* answered 7, after the expiration of the replaced entry has passed
C19_Witness ==
    /\ nrecv[1] = 3
    /\ pc[1] = "next"
    /\ now = 2
    /\ reply[1] = << BulkString(<<"7">>) >>
    /\ string_store[k] = [data |-> <<"7">>, expires_at |-> <<>>]

\* the bytes that have not yet arrived
RECURSIVE Flatten(_)
Flatten(segments) ==
    IF segments = <<>> THEN <<>> ELSE Head(segments) \o Flatten(Tail(segments))

\* C20: when the read buffer holds a proper prefix of the encoding of the
\* frame the client wrote, the rest of it not yet arrived, decode returns
\* Ok(None) and leaves the buffer as it is.
C20_NeedMoreConsumesNothing ==
    [][ (/\ Decode
         /\ Len(sent) = 1
         /\ wire # <<>>
         /\ src \o Flatten(wire) = as_bytes(sent[1])) =>
            /\ outcome'[1].r = "None"
            /\ src' = src ]_vars

\* C21: when the decoder has answered Ok(None) and the whole encoding of the
\* one frame the client wrote has by now arrived, whatever the split into
\* segments was, the next decode yields that frame.
C21_SplitFrameIsDecoded ==
    [][ (/\ Decode
         /\ Len(sent) = 1
         /\ wire = <<>>
         /\ yielded = <<>>
         /\ outcome = << [r |-> "None"] >>) =>
            outcome' = << [r |-> "Some", item |-> sent[1]] >> ]_vars

\* C22: decode of a buffer that holds exactly the encoding of a frame yields
\* that frame and consumes all the bytes of the encoding.
C22_RoundTrip ==
    [][ (/\ Decode
         /\ Len(sent) = 1
         /\ wire = <<>>
         /\ src = as_bytes(sent[1])) =>
            /\ outcome' = << [r |-> "Some", item |-> sent[1]] >>
            /\ src' = <<>> ]_vars

\* C23: when decode returns a frame, the bytes it has taken off the front of
\* the buffer are exactly the encoding of that frame, and the bytes behind
\* them are what the buffer holds afterwards.
C23_ConsumesExactlyTheFrame ==
    [][ (/\ Decode
         /\ outcome'[1].r = "Some") =>
            src = as_bytes(outcome'[1].item) \o src' ]_vars

\* the buffer starts with a complete bulk string or array header whose
\* length or count is negative, the null bulk string $-1 apart
NegativeHeader(buf) ==
    /\ buf # <<>>
    /\ buf[1] \in {"$", "*"}
    /\ find_crlf(buf) # <<>>
    /\ LET n == ParseI64(HeaderText(buf, find_crlf(buf)[1]))
       IN  /\ n # <<>>
           /\ n[1] < 0
           /\ ~(buf[1] = "$" /\ n[1] = 0 - 1)

\* C24: decode of a buffer that starts with a bulk string header of negative
\* length other than -1, or with an array header of negative count, returns
\* an Err.
C24_NegativeLengthIsAnError ==
    [][ (Decode /\ NegativeHeader(src)) => outcome'[1].r = "Err" ]_vars

\* the contents of the list of a key: empty when the key is absent
Contents(key) == IF key \in DOMAIN list_store THEN list_store[key] ELSE <<>>

\* the step leaves every list but that of key as it is
OtherListsKept(key) ==
    /\ DOMAIN list_store' = DOMAIN list_store \cup {key}
    /\ \A other \in DOMAIN list_store \ {key} : list_store'[other] = list_store[other]

\* C25: an RPUSH key v1..vn the storage actor executes on a list with
\* contents S (empty when the key is absent) makes the contents S followed by
\* v1..vn, is answered Integer |S| + n and touches no other list and no
\* string; an LLEN is answered the length of the contents and an LRANGE
\* key 0 -1 is answered the contents, and neither changes the store.
C25_RpushAppends ==
    [][ /\ Runs("RPUSH") =>
            /\ list_store'[Head(mailbox).cmd.key] =
                  Contents(Head(mailbox).cmd.key) \o Head(mailbox).cmd.elements
            /\ Answer = <<"Ok", Integer(Len(Contents(Head(mailbox).cmd.key))
                                        + Len(Head(mailbox).cmd.elements))>>
            /\ OtherListsKept(Head(mailbox).cmd.key)
            /\ string_store' = string_store
        /\ Runs("LLEN") =>
            /\ Answer = <<"Ok", Integer(Len(Contents(Head(mailbox).cmd.key)))>>
            /\ list_store' = list_store
        /\ (/\ Runs("LRANGE")
            /\ Head(mailbox).cmd.start = 0
            /\ Head(mailbox).cmd.stop = 0 - 1) =>
            /\ Answer = <<"Ok", Array(BulkStrings(Contents(Head(mailbox).cmd.key)))>>
            /\ list_store' = list_store ]_vars

\* C25: LPUSH k c, RPUSH k a b, LRANGE k 0 -1: the range read after the
\* push is c, a, b
C25_Witness ==
    /\ nrecv[1] = 3
    /\ pc[1] = "next"
    /\ k \in DOMAIN list_store
    /\ list_store[k] = << <<"c">>, <<"a">>, <<"b">> >>
    /\ reply[1] = << Array(BulkStrings(<< <<"c">>, <<"a">>, <<"b">> >>)) >>

\* a sequence from its last element to its first
Reversed(seq) == [i \in 1..Len(seq) |-> seq[Len(seq) + 1 - i]]

\* C26: an LPUSH key v1..vn the storage actor executes on a list with
\* contents S makes the contents vn..v1 followed by S, is answered
\* Integer |S| + n and touches no other list and no string.
C26_LpushPrependsReversed ==
    [][ Runs("LPUSH") =>
            /\ list_store'[Head(mailbox).cmd.key] =
                  Reversed(Head(mailbox).cmd.elements)
                      \o Contents(Head(mailbox).cmd.key)
            /\ Answer = <<"Ok", Integer(Len(Contents(Head(mailbox).cmd.key))
                                        + Len(Head(mailbox).cmd.elements))>>
            /\ OtherListsKept(Head(mailbox).cmd.key)
            /\ string_store' = string_store ]_vars

\* C26: RPUSH k a b, LPUSH k d e, LRANGE k 0 -1: the range read after the
\* push is e, d, a, b
C26_Witness ==
    /\ nrecv[1] = 3
    /\ pc[1] = "next"
    /\ k \in DOMAIN list_store
    /\ list_store[k] = << <<"e">>, <<"d">>, <<"a">>, <<"b">> >>
    /\ reply[1] = << Array(BulkStrings(<< <<"e">>, <<"d">>, <<"a">>, <<"b">> >>)) >>

\* C27: an LPOP the storage actor executes on a key that is absent or whose
\* list is empty is answered NullBulkString when it has no count and the
\* empty Array when it has one, and leaves the store as it is.
C27_LpopOfNothing ==
    [][ (Runs("LPOP") /\ Contents(Head(mailbox).cmd.key) = <<>>) =>
            /\ Answer = <<"Ok", IF Head(mailbox).cmd.count = <<>>
                                THEN NullBulkString ELSE Array(<<>>)>>
            /\ list_store' = list_store
            /\ string_store' = string_store ]_vars

\* how many elements an LPOP with the count n takes from a list of length len
Popped(n, len) ==
    IF n <= 0 THEN 0 ELSE IF n >= len THEN len ELSE n

\* C28: an LPOP key n the storage actor executes on a non-empty list of
\* length L takes the first m = min(max(n, 0), L) elements off the list, is
\* answered the Array of them in list order and leaves the other L - m in
\* their order (for n <= 0 the empty Array and the list unchanged); an LPOP
\* without count takes the head off and is answered it as a BulkString; no
\* other list and no string changes.
C28_LpopTakesFromHead ==
    [][ (Runs("LPOP") /\ Contents(Head(mailbox).cmd.key) # <<>>) =>
            /\ OtherListsKept(Head(mailbox).cmd.key)
            /\ string_store' = string_store
            /\ IF Head(mailbox).cmd.count = <<>>
               THEN /\ Answer = <<"Ok", BulkString(list_store[Head(mailbox).cmd.key][1])>>
                    /\ << list_store[Head(mailbox).cmd.key][1] >>
                          \o list_store'[Head(mailbox).cmd.key]
                       = list_store[Head(mailbox).cmd.key]
               ELSE /\ Answer[1] = "Ok"
                    /\ Answer[2].t = "Array"
                    /\ Len(Answer[2].a) =
                          Popped(Head(mailbox).cmd.count[1],
                                 Len(list_store[Head(mailbox).cmd.key]))
                    /\ \A i \in 1..Len(Answer[2].a) :
                          Answer[2].a[i] =
                              BulkString(list_store[Head(mailbox).cmd.key][i])
                    /\ [i \in 1..Len(Answer[2].a) |-> Answer[2].a[i].s]
                          \o list_store'[Head(mailbox).cmd.key]
                       = list_store[Head(mailbox).cmd.key] ]_vars

\* C28: RPUSH k a b, LPUSH k d e, LPOP k 3: the pop is answered e, d, a and
\* leaves b
C28_Witness ==
    /\ nrecv[1] = 3
    /\ pc[1] = "next"
    /\ k \in DOMAIN list_store
    /\ list_store[k] = << <<"b">> >>
    /\ reply[1] = << Array(BulkStrings(<< <<"e">>, <<"d">>, <<"a">> >>)) >>

\* the rule of index normalisation: a negative index counts from the end and
\* stops at the first position, another index stops at the last position
Normalised(idx, len) ==
    IF idx < 0 THEN (IF len + idx > 0 THEN len + idx ELSE 0)
    ELSE (IF idx < len - 1 THEN idx ELSE len - 1)

\* the elements of list at the 0-based positions from..to, in list order
Slice(list, from, to) ==
    IF from > to THEN <<>>
    ELSE [i \in 1..(to - from + 1) |-> list[from + i]]

\* C29: an LRANGE key start stop the storage actor executes is answered the
\* Array of the elements at the normalised positions start'..stop' of the
\* list, the empty Array when start' > stop' and when the list is absent or
\* empty, and changes neither store.
C29_LrangeIsTheNormalisedSlice ==
    [][ Runs("LRANGE") =>
            /\ list_store' = list_store
            /\ string_store' = string_store
            /\ Answer = <<"Ok", Array(
                  IF Contents(Head(mailbox).cmd.key) = <<>> THEN <<>>
                  ELSE BulkStrings(Slice(Contents(Head(mailbox).cmd.key),
                          Normalised(Head(mailbox).cmd.start,
                                     Len(Contents(Head(mailbox).cmd.key))),
                          Normalised(Head(mailbox).cmd.stop,
                                     Len(Contents(Head(mailbox).cmd.key))))))>> ]_vars

\* C29: RPUSH k a b, RPUSH k c, LRANGE k -2 4: the range is answered b, c
C29_Witness ==
    /\ nrecv[1] = 3
    /\ pc[1] = "next"
    /\ k \in DOMAIN list_store
    /\ list_store[k] = << <<"a">>, <<"b">>, <<"c">> >>
    /\ reply[1] = << Array(BulkStrings(<< <<"b">>, <<"c">> >>)) >>

\* C30: a connection takes a frame from its stream only when it is back in
\* framed.next(), the replies to all the frames before written; a reply is
\* written only for the frame in hand, one per frame, so the i-th frame
\* written answers the i-th frame taken; and no frame is left without reply
\* by the end of the connection task.
C30_OneReplyPerFrameInOrder ==
    [][ \A c \in Conns :
          /\ nrecv'[c] # nrecv[c] =>
                /\ pc[c] = "next"
                /\ nsent[c] = nrecv[c]
                /\ nrecv'[c] = nrecv[c] + 1
          /\ nsent'[c] # nsent[c] =>
                /\ nsent'[c] = nsent[c] + 1
                /\ nsent'[c] = nrecv'[c]
                /\ pc'[c] = "next"
          /\ nsent'[c] \in {nrecv'[c], nrecv'[c] - 1}
          /\ pc'[c] # "panicked" ]_vars

\* the words of a message: the texts of the bulk strings of its array
Words(f) == [i \in 1..Len(f.a) |-> f.a[i].s]

\* the replies of the master that have arrived at the replica
RepliesReceived == Len(sent) - Len(wire)

\* C31: what a replica has written to its master is a beginning of PING,
\* REPLCONF listening-port <port>, REPLCONF capa psync2, PSYNC ? -1; it has
\* written at most one message more than it has received replies; a client
\* frame is handled only in the accept loop, after four messages and the
\* reply to each of them; and after a failed handshake no client frame is
\* ever handled.
C31_HandshakeBeforeClients ==
    /\ Len(to_master) <= 4
    /\ \A i \in 1..Len(to_master) :
          /\ to_master[i].t = "Array"
          /\ \A e \in 1..Len(to_master[i].a) : to_master[i].a[e].t = "BulkString"
          /\ CASE i = 1 -> Words(to_master[i]) = << <<"PING">> >>
               [] i = 2 -> /\ Len(to_master[i].a) = 3
                           /\ SubSeq(Words(to_master[i]), 1, 2)
                                 = << <<"REPLCONF">>, <<"listening-port">> >>
               [] i = 3 -> Words(to_master[i])
                                 = << <<"REPLCONF">>, <<"capa">>, <<"psync2">> >>
               [] i = 4 -> Words(to_master[i])
                                 = << <<"PSYNC">>, <<"?">>, <<"-1">> >>
    /\ Len(to_master) <= RepliesReceived + 1
    /\ \A c \in Conns :
          nrecv[c] > 0 =>
              /\ handshake = "accept"
              /\ Len(to_master) = 4
              /\ RepliesReceived = 4
    /\ handshake = "accept" => RepliesReceived = 4

\* C32: the third word of the REPLCONF listening-port message a replica has
\* written is the decimal text of the port of its configuration.
C32_ListeningPortIsOwnPort ==
    Len(to_master) >= 2 => Words(to_master[2])[3] = NatText(config.port)

\* the four fields of the INFO reply, one per line, with the line break sep
\* between them and, when last is set, after the last of them too
InfoLines(info, sep, last) ==
    << IF info.role = "Master" THEN "role:master" ELSE "role:slave" >> \o sep
    \o <<"connected_slaves:">> \o I64ToString(info.connected_slaves) \o sep
    \o <<"master_replid:">> \o info.master_replid \o sep
    \o <<"master_repl_offset:">> \o I64ToString(info.master_repl_offset)
    \o (IF last THEN sep ELSE <<>>)

\* the INFO reply last written to connection c, if the last reply is one
InfoReply(c) ==
    IF /\ reply[c] # <<>>
       /\ reply[c][1].t = "BulkString"
       /\ reply[c][1].s # <<>>
       /\ reply[c][1].s[1] \in {"role:master", "role:slave"}
    THEN << reply[c][1].s >> ELSE <<>>

\* C33: an INFO reply is the BulkString of the fields role, connected_slaves,
\* master_replid and master_repl_offset in this order, each followed by a
\* line break before the next, with role:master on a server without master
\* address and role:slave on a replica.
C33_InfoIsLinePerField ==
    \A c \in Conns :
        InfoReply(c) # <<>> =>
            \E sep \in {<<"\n">>, <<"\r", "\n">>} : \E last \in BOOLEAN :
                InfoReply(c)[1] = InfoLines(ServerInfoFrom(config.replica_of), sep, last)

\* a frame that is no SimpleString or SimpleError, or one whose text holds
\* neither CR nor LF
OneLine(f) ==
    f.t \in {"SimpleString", "SimpleError"} =>
        \A i \in 1..Len(f.s) : f.s[i] \notin {"\r", "\n"}

\* C34: the SimpleString or SimpleError last written to a client, alone or
\* as an element of the Array of an EXEC, has a text without CR and LF.
C34_SimpleTextsAreOneLine ==
    \A c \in Conns :
        reply[c] # <<>> =>
            /\ OneLine(reply[c][1])
            /\ reply[c][1].t = "Array" =>
                  \A i \in 1..Len(reply[c][1].a) : OneLine(reply[c][1].a[i])

\* C35: a SET with PX the storage actor executes leaves the key with an
\* expiration instant strictly after the instant of the execution, at which
\* the entry is created.
C35_ExpirationIsAfterCreation ==
    [][ (Runs("SET") /\ Head(mailbox).cmd.px # <<>>) =>
            /\ string_store'[Head(mailbox).cmd.key].expires_at # <<>>
            /\ string_store'[Head(mailbox).cmd.key].expires_at[1] > now ]_vars

\* the entry of key is live at the instant now and carries an expiration
LiveWithExpiration(key) ==
    /\ key \in DOMAIN string_store
    /\ string_store[key].expires_at # <<>>
    /\ now <= string_store[key].expires_at[1]

\* C40: an INCR the storage actor executes on a live key that carries an
\* expiration and holds the numeral of n (n + 1 within the i64 range) leaves
\* the key with the numeral of n + 1 and the same expiration instant and
\* changes nothing else; and a GET executed after the expiration instant of
\* a key is answered NullBulkString.
C40_IncrKeepsExpiration ==
    [][ /\ (/\ Runs("INCR")
            /\ LiveWithExpiration(Head(mailbox).cmd.key)
            /\ ParseI64(string_store[Head(mailbox).cmd.key].data) # <<>>
            /\ ~IsWide(string_store[Head(mailbox).cmd.key].data)) =>
                /\ string_store' =
                      [string_store EXCEPT
                          ![Head(mailbox).cmd.key].data =
                              I64ToString(ParseI64(@)[1] + 1)]
                /\ string_store'[Head(mailbox).cmd.key].expires_at
                      = string_store[Head(mailbox).cmd.key].expires_at
                /\ list_store' = list_store
                /\ Answer = <<"Ok", Integer(
                      ParseI64(string_store[Head(mailbox).cmd.key].data)[1] + 1)>>
        /\ (/\ Runs("GET")
            /\ Head(mailbox).cmd.key \in DOMAIN string_store
            /\ string_store[Head(mailbox).cmd.key].expires_at # <<>>
            /\ now > string_store[Head(mailbox).cmd.key].expires_at[1]) =>
                Answer = <<"Ok", NullBulkString>> ]_vars

\* C40: SET k 7 PX 1 at the instant 0, then INCR k at the instant 1: k holds
\* 8 and still expires at the instant 1
C40_Witness ==
    /\ nrecv[1] = 2
    /\ pc[1] = "next"
    /\ now = 1
    /\ nsent[1] = 2
    /\ k \in DOMAIN string_store
    /\ string_store[k] = [data |-> <<"8">>, expires_at |-> <<1>>]

\* the replies execute_transaction has collected after a step
Collected == IF pc'[1] = "exec" THEN results'[1] ELSE reply'[1][1].a

\* a step of execute_transaction over the queue queued with the replies res
\* collected: every command it answers in place gets the reply it gets
\* outside MULTI, and the command it stops at is one of the storage actor,
\* sent to the mailbox
RunsAsOutsideMulti(queued, res) ==
    /\ pc'[1] \in {"next", "exec"}
    /\ \A i \in 1..Len(queued) :
          /\ (Len(res) + i <= Len(Collected)) =>
                /\ queued[i].cmd.name \notin StorageCommands
                /\ Collected[Len(res) + i] = RegularReply(queued[i].cmd)
          /\ (pc'[1] = "exec" /\ Len(res) + i = Len(Collected) + 1) =>
                /\ queued[i].cmd.name \in StorageCommands
                /\ mailbox' = Append(mailbox, [cmd |-> queued[i].cmd, from |-> 1,
                                               at |-> queued[i].at])

\* no MULTI is in the queue
NoMultiQueued(queued) == \A i \in 1..Len(queued) : queued[i].cmd.name # "MULTI"

\* C36: at EXEC, and after every reply of the storage actor during the run,
\* the queued commands (a queued MULTI aside) are dispatched as outside
\* MULTI: PING, ECHO, INFO, REPLCONF and PSYNC get the reply
\* handle_regular_command gives, a storage command goes to the mailbox, and
\* the reply of the mailbox is the one collected for it.
C36_QueuedRunsAsOutsideMulti ==
    [][ /\ (InMulti(1) /\ NoMultiQueued(transaction_queue[1][1])
                /\ Handle(1, fEXEC)) =>
                RunsAsOutsideMulti(transaction_queue[1][1], <<>>)
        /\ (pc[1] = "exec" /\ NoMultiQueued(queued_cmds[1])
                /\ Resume(1) /\ slot[1][1] = "Ok") =>
                /\ RunsAsOutsideMulti(queued_cmds[1], Append(results[1], slot[1][2]))
                /\ Collected[Len(results[1]) + 1] = slot[1][2] ]_vars

\* the stores after the first n writes of connection 1, run one after the
\* other on the empty stores
RECURSIVE Written(_)
Written(n) ==
    IF n = 0 THEN [string_store |-> EmptyMap, list_store |-> EmptyMap]
    ELSE LET before == Written(n - 1)
         IN  StorageActorRun(TryFrom(WriterFrame(n)).cmd,
                             before.string_store, before.list_store, 0)

\* the reply of the read cmd on the stores after the first n writes
ReadAfter(n, cmd) ==
    StorageActorRun(cmd, Written(n).string_store, Written(n).list_store, 0).resp

\* C37: a read of k by connection 2 is answered from the stores as they are
\* after the first n writes of connection 1, where n is at least the number
\* of writes connection 1 has the reply of: every write answered before the
\* read is reflected, and only writes sent since can change what is read.
C37_AnsweredWritesAreRead ==
    [][ \A name \in {"GET", "LLEN", "LRANGE"} :
            (Runs(name) /\ Head(mailbox).from = 2) =>
                \E n \in nsent[1]..nrecv[1] :
                    Answer = <<"Ok", ReadAfter(n, Head(mailbox).cmd)>> ]_vars

\* C37: connection 1 has the replies of SET k 7 and INCR k and of nothing
\* else, and connection 2 has read 8 with GET k
C37_Witness ==
    /\ nsent[1] = 2
    /\ nrecv[1] = 2
    /\ pc[2] = "next"
    /\ reply[2] = << BulkString(<<"8">>) >>

\* the messages of connection c in the mailbox, in order
MessagesOf(c, box) == SelectSeq(box, LAMBDA m : m.from = c)

\* what belongs to connection c alone
OwnState(c) ==
    <<transaction_queue[c], queued_cmds[c], results[c], pc[c], reply[c],
      nsent[c], nrecv[c], discarded[c], slot[c]>>

\* connection c takes a step: a frame from framed.next() or the reply of the
\* storage actor
Steps(c) == nrecv'[c] # nrecv[c] \/ (slot[c] # <<>> /\ slot'[c] = <<>>)

\* C39: a step of connection 1, in MULTI or not, leaves everything that
\* belongs to connection 2 and the messages of connection 2 in the mailbox as
\* they are, and changes no store; and while connection 1 is in MULTI a frame
\* of connection 2 is handled as a regular command: a storage command goes
\* to the end of the mailbox and nothing is queued, and connection 2 is
\* answered the reply of the storage actor.
C39_TransactionIsPrivate ==
    [][ /\ Steps(1) =>
                /\ OwnState(2)' = OwnState(2)
                /\ MessagesOf(2, mailbox') = MessagesOf(2, mailbox)
                /\ string_store' = string_store
                /\ list_store' = list_store
        /\ \A resp \in PeerFrames : (InMulti(1) /\ Handle(2, resp)) =>
                /\ mailbox' = Append(mailbox, [cmd |-> TryFrom(resp).cmd, from |-> 2,
                                               at |-> nrecv[2] + 1])
                /\ pc'[2] = "await"
                /\ transaction_queue' = transaction_queue
                /\ OwnState(1)' = OwnState(1)
        /\ (pc[2] = "await" /\ Resume(2) /\ slot[2][1] = "Ok") =>
                /\ reply'[2] = << slot[2][2] >>
                /\ OwnState(1)' = OwnState(1) ]_vars

\* C39: connection 1 is in MULTI with INCR k queued, and the INCR k of
\* connection 2, sent since, has been run and answered 1
C39_Witness ==
    /\ InMulti(1)
    /\ Len(transaction_queue[1][1]) = 1
    /\ transaction_queue[1][1][1].cmd = INCR(k)
    /\ nrecv[1] = 2
    /\ pc[2] = "next"
    /\ reply[2] = << Integer(1) >>
    /\ k \in DOMAIN string_store
    /\ string_store[k].data = <<"1">>

\* C38: under fair scheduling of the connection tasks and of the storage
\* actor, whenever a connection has received more frames than it has
\* answered, it eventually has answered every frame it received.
C38_EveryFrameIsAnswered ==
    \A c \in Conns : (nsent[c] < nrecv[c]) ~> (nsent[c] = nrecv[c])

====
